---- MODULE Spec2Model ----
(***************************************************************************)
(* State-machine model of telegram-mcp: the cache store (CacheManager),    *)
(* the log store (Logger) and the account registry (AccountManager), each  *)
(* in its raw-statement and ORM-mediated variant, over one SQLite handle   *)
(* and one wall clock; the mock Telegram provider; and the MCP server.     *)
(*                                                                         *)
(* Strings the code inspects character by character (cache keys, LIKE      *)
(* patterns, JSON text) are sequences of one-character strings.            *)
(***************************************************************************)
EXTENDS Integers, Sequences, FiniteSets, TLC

VARIABLES
  clock,      \* Date.now(), in ms
  cache,      \* rows of table `cache`
  hitCount,   \* CacheManager.hitCount
  missCount,  \* CacheManager.missCount
  ret,        \* the last cache call: operation, key argument and returned value
  logs,       \* rows of table `logs`
  minLevel,   \* Logger.minLevel
  nextId,     \* number of ids uuidv4() has handed out
  logRet,     \* the last log-store call: operation, argument and returned value
  trimPc,     \* position of the running async (ORM) trim
  trimMax,    \* its maxEntries argument
  idsToKeep,  \* its local idsToKeep
  idsToDelete,\* its local idsToDelete
  trimI,      \* its loop index i
  trimDeleted,\* its local deleted
  trimSeen,   \* history: ids stored when the running trim computed its keep-set
  queryRet,   \* the last query or count call: its options and what it returned
  accounts,   \* rows of table `sessions`
  acctNextId, \* number of ids uuidv4() has handed out to the AccountManager
  acctRet,    \* the last AccountManager call that writes: operation, argument, outcome
  acctRead,   \* the value an AccountManager read has returned to its caller
  isRunning,  \* TelegramMCPServer.isRunning
  dbOpen,     \* whether the handle dbInstance holds is open
  pending,    \* tool-call handlers waiting for the TelegramService, by request
  srvOps,     \* store operations the last server handler issued, and on what handle
  srvRet,     \* the last server call or handler: name and how it ended
  wasStarted, \* history: a start() has completed
  connected,  \* whether the SDK Server holds a transport: from connect() to its close
  starting,   \* start() calls waiting for connect() to settle
  stopping,   \* stop() calls waiting for close() to settle
  isAuthenticatedFlag, \* MockTelegramProvider.isAuthenticatedFlag
  currentUser,         \* MockTelegramProvider.currentUser
  simulateError,       \* MockTelegramProvider.simulateError
  chats,               \* MockTelegramProvider.chats
  messages,            \* MockTelegramProvider.messages
  mockRet,    \* the last MockTelegramProvider call: name, arguments and outcome
  microtasks  \* continuations of async (ORM) CacheManager calls, in queue order

vars == <<clock, cache, hitCount, missCount, ret, logs, minLevel, nextId, logRet,
          trimPc, trimMax, idsToKeep, idsToDelete, trimI, trimDeleted, trimSeen,
          queryRet, accounts, acctNextId, acctRet, acctRead,
          isRunning, dbOpen, pending, srvOps, srvRet, wasStarted,
          connected, starting, stopping,
          isAuthenticatedFlag, currentUser, simulateError, chats, messages, mockRet,
          microtasks>>

cacheVars == <<cache, hitCount, missCount, ret>>
trimVars == <<trimPc, trimMax, idsToKeep, idsToDelete, trimI, trimDeleted, trimSeen>>
logVars == <<logs, minLevel, nextId, logRet, trimVars, queryRet>>
acctVars == <<accounts, acctNextId, acctRet, acctRead>>
srvVars == <<isRunning, dbOpen, pending, srvOps, srvRet, wasStarted,
            connected, starting, stopping>>
mockVars == <<isAuthenticatedFlag, currentUser, simulateError, chats, messages, mockRet>>
serviceVars == <<srvVars, mockVars, microtasks>>

----------------------------------------------------------------------------
(* Bounds of the model *)

MaxClock == 3
MaxTtl == 1
MaxGets == 3
MaxLogs == 3
MaxLogClock == 2
MaxTrim == 2
MaxQueryLogs == 2
MaxAccounts == 2
MaxAcctClock == 2

----------------------------------------------------------------------------
(* JavaScript values and JSON text *)

JsString(s) == [t |-> "string", s |-> s]
JsNull == [t |-> "null", s |-> <<>>]
JsUndefined == [t |-> "undefined", s |-> <<>>]
\* an object, by the text between its braces
JsObject(s) == [t |-> "object", s |-> s]

\* a number, by its decimal text
JsNumber(s) == [t |-> "number", s |-> s]
JsBoolean(b) ==
  [t |-> "boolean", s |-> IF b THEN <<"t", "r", "u", "e">> ELSE <<"f", "a", "l", "s", "e">>]
\* an array, by the text between its brackets
JsArray(s) == [t |-> "array", s |-> s]

Values == {JsString(<<"x">>), JsString(<<"y", "z">>)}

Quote == "\""
Backslash == "\\"

\* the values of every JSON type: strings (one empty, one holding a double quote),
\* numbers, booleans, null, an object and an array
JsonValues ==
  {JsString(<<>>), JsString(<<"a", Quote>>), JsNumber(<<"0">>), JsNumber(<<"4", "2">>),
   JsBoolean(FALSE), JsBoolean(TRUE), JsNull,
   JsObject(<<Quote, "n", Quote, ":", "1">>), JsArray(<<"1", ",", "2">>)}

\* JSON.stringify on the characters of a string: quote and backslash are escaped
RECURSIVE Escape(_)
Escape(s) ==
  IF s = <<>> THEN <<>>
  ELSE IF Head(s) = Quote \/ Head(s) = Backslash
    THEN <<Backslash, Head(s)>> \o Escape(Tail(s))
  ELSE <<Head(s)>> \o Escape(Tail(s))

\* JSON.parse on the characters between the quotes of a string literal
RECURSIVE Unescape(_)
Unescape(s) ==
  IF s = <<>> THEN <<>>
  ELSE IF Head(s) = Backslash /\ Len(s) >= 2
    THEN <<s[2]>> \o Unescape(Tail(Tail(s)))
  ELSE <<Head(s)>> \o Unescape(Tail(s))

\* JSON.stringify(value)
JsonStringify(v) ==
  IF v.t = "null" THEN <<"n", "u", "l", "l">>
  ELSE IF v.t = "object" THEN <<"{">> \o v.s \o <<"}">>
  ELSE IF v.t = "array" THEN <<"[">> \o v.s \o <<"]">>
  ELSE IF v.t \in {"number", "boolean"} THEN v.s
  ELSE <<Quote>> \o Escape(v.s) \o <<Quote>>

\* JSON.parse(text)
JsonParse(text) ==
  IF text = <<"n", "u", "l", "l">> THEN JsNull
  ELSE IF Head(text) = "{" THEN JsObject(SubSeq(text, 2, Len(text) - 1))
  ELSE IF Head(text) = "[" THEN JsArray(SubSeq(text, 2, Len(text) - 1))
  ELSE IF Head(text) = Quote THEN JsString(Unescape(SubSeq(text, 2, Len(text) - 1)))
  ELSE IF text = <<"t", "r", "u", "e">> THEN JsBoolean(TRUE)
  ELSE IF text = <<"f", "a", "l", "s", "e">> THEN JsBoolean(FALSE)
  ELSE JsNumber(text)

\* a JavaScript number used as a condition: 0 is falsy
Truthy(n) == n # 0

----------------------------------------------------------------------------
(* Table `cache` *)

\* SQL NULL in an integer column
SqlNull == -1

\* an omitted optional number argument (undefined)
Omitted == -2

Keys == {<<"a", "b">>, <<"A", "_">>}
Prefixes == {<<>>, <<"a">>, <<"a", "b">>, <<"a", "_">>, <<"%">>}
TtlArgs == {Omitted} \cup (0 .. MaxTtl)

\* const expiresAt = ttlMs ? now + ttlMs : null
ExpiresAt(now, ttlMs) ==
  IF ttlMs # Omitted /\ Truthy(ttlMs) THEN now + ttlMs ELSE SqlNull

\* faulty variant: a plain INSERT that keeps the old row
InsertOnly(table, row) == table \cup {row}

\* INSERT OR REPLACE INTO cache / insert ... onConflictDoUpdate(target: key)
InsertOrReplace(table, row) == {r \in table : r.key # row.key} \cup {row}

\* faulty variant: an entry already counts as expired at its expiry instant
IsExpiredAtBoundary(row, now) ==
  row.expiresAt # SqlNull /\ Truthy(row.expiresAt) /\ row.expiresAt <= now

\* row.expires_at && row.expires_at < Date.now()
IsExpired(row, now) ==
  row.expiresAt # SqlNull /\ Truthy(row.expiresAt) /\ row.expiresAt < now

\* faulty variant: expires_at <= ?
SqlExpiredAtBoundary(row, now) == row.expiresAt # SqlNull /\ row.expiresAt <= now

\* WHERE expires_at IS NOT NULL AND expires_at < ?
SqlExpired(row, now) == row.expiresAt # SqlNull /\ row.expiresAt < now

\* faulty variant: the IS NOT NULL test is left out and NULL sorts before every time
ExpiredRowsIgnoringNull(table, now) == {r \in table : r.expiresAt < now}

\* the rows that statement selects
ExpiredRows(table, now) == {r \in table : SqlExpired(r, now)}

\* SQLite folds the case of ASCII letters when LIKE compares characters
Lower(c) == IF c = "A" THEN "a" ELSE IF c = "B" THEN "b" ELSE c

\* SQLite's LIKE with no ESCAPE clause: % matches any run, _ any one character
RECURSIVE LikeMatch(_, _)
LikeMatch(pat, s) ==
  IF pat = <<>> THEN s = <<>>
  ELSE IF Head(pat) = "%"
    THEN LikeMatch(Tail(pat), s) \/ (s # <<>> /\ LikeMatch(pat, Tail(s)))
  ELSE IF s = <<>> THEN FALSE
  ELSE /\ (Head(pat) = "_" \/ Lower(Head(pat)) = Lower(Head(s)))
       /\ LikeMatch(Tail(pat), Tail(s))

\* key LIKE `${prefix}%`
KeyLikePrefix(key, prefix) == LikeMatch(prefix \o <<"%">>, key)

RECURSIVE SumLength(_)
\* SELECT SUM(length(value)) FROM cache, then `|| 0`
SumLength(rows) ==
  IF rows = {} THEN 0
  ELSE LET r == CHOOSE x \in rows : TRUE
       IN Len(r.value) + SumLength(rows \ {r})

NoStats == [totalEntries |-> 0, expiredEntries |-> 0, hitCount |-> 0,
            missCount |-> 0, size |-> 0]

CacheRet(op, key, val, num, bool, st) ==
  [op |-> op, key |-> key, val |-> val, num |-> num, bool |-> bool, st |-> st]

----------------------------------------------------------------------------
(* CacheManager operations *)

Set(key, value, ttlMs) ==
  /\ cache' = InsertOrReplace(cache,
                [key |-> key, value |-> JsonStringify(value),
                 expiresAt |-> ExpiresAt(clock, ttlMs), createdAt |-> clock])
  /\ ret' = CacheRet("set", key, JsUndefined, 0, FALSE, NoStats)
  /\ UNCHANGED <<clock, hitCount, missCount, logVars, acctVars, serviceVars>>

\* the row stored under key, as a set (empty when there is none)
RowsOf(table, key) == {r \in table : r.key = key}

\* DELETE FROM cache WHERE key = ?
DeleteKey(table, key) == {r \in table : r.key # key}

\* get: no row (`if (!row)`)
GetMissing(key) ==
  /\ RowsOf(cache, key) = {}
  /\ missCount' = missCount + 1
  /\ ret' = CacheRet("get", key, JsNull, 0, FALSE, NoStats)
  /\ UNCHANGED <<cache, hitCount, serviceVars>>

\* faulty variant: the expired branch forgets missCount++
GetExpiredUncounted(key) ==
  /\ \E row \in RowsOf(cache, key) : IsExpired(row, clock)
  /\ cache' = DeleteKey(cache, key)
  /\ ret' = CacheRet("get", key, JsNull, 0, FALSE, NoStats)
  /\ UNCHANGED <<hitCount, missCount, serviceVars>>

\* get: the row is expired: delete it, count a miss, return null
GetExpired(key) ==
  /\ \E row \in RowsOf(cache, key) : IsExpired(row, clock)
  /\ cache' = DeleteKey(cache, key)
  /\ missCount' = missCount + 1
  /\ ret' = CacheRet("get", key, JsNull, 0, FALSE, NoStats)
  /\ UNCHANGED hitCount

\* get: count a hit and return the parsed value
GetHit(key) ==
  /\ \E row \in RowsOf(cache, key) :
       /\ ~IsExpired(row, clock)
       /\ ret' = CacheRet("get", key, JsonParse(row.value), 0, FALSE, NoStats)
  /\ hitCount' = hitCount + 1
  /\ UNCHANGED <<cache, missCount, serviceVars>>

Get(key) ==
  /\ hitCount + missCount < MaxGets
  /\ (GetMissing(key) \/ GetExpired(key) \/ GetHit(key))
  /\ UNCHANGED <<clock, logVars, acctVars, serviceVars>>

Delete(key) ==
  /\ cache' = DeleteKey(cache, key)
  /\ ret' = CacheRet("delete", key, JsUndefined, 0, cache' # cache, NoStats)
  /\ UNCHANGED <<clock, hitCount, missCount, logVars, acctVars, serviceVars>>

Clear ==
  /\ cache' = {}
  /\ ret' = CacheRet("clear", <<>>, JsUndefined, 0, FALSE, NoStats)
  /\ UNCHANGED <<clock, hitCount, missCount, logVars, acctVars, serviceVars>>

ClearByPrefix(prefix) ==
  /\ cache' = {r \in cache : ~KeyLikePrefix(r.key, prefix)}
  /\ ret' = CacheRet("clearByPrefix", prefix, JsUndefined, 0, FALSE, NoStats)
  /\ UNCHANGED <<clock, hitCount, missCount, logVars, acctVars, serviceVars>>

\* faulty variant: stats() reaps the expired rows it has counted
StatsReaping ==
  /\ ret' = CacheRet("stats", <<>>, JsUndefined, 0, FALSE,
               [totalEntries |-> Cardinality(cache),
                expiredEntries |-> Cardinality(ExpiredRows(cache, clock)),
                hitCount |-> hitCount,
                missCount |-> missCount,
                size |-> SumLength(cache)])
  /\ cache' = cache \ ExpiredRows(cache, clock)
  /\ UNCHANGED <<clock, hitCount, missCount, logVars, acctVars, serviceVars>>

Stats ==
  /\ ret' = CacheRet("stats", <<>>, JsUndefined, 0, FALSE,
               [totalEntries |-> Cardinality(cache),
                expiredEntries |-> Cardinality(ExpiredRows(cache, clock)),
                hitCount |-> hitCount,
                missCount |-> missCount,
                size |-> SumLength(cache)])
  /\ UNCHANGED <<clock, cache, hitCount, missCount, logVars, acctVars, serviceVars>>

Cleanup ==
  /\ cache' = cache \ ExpiredRows(cache, clock)
  /\ ret' = CacheRet("cleanup", <<>>, JsUndefined,
                     Cardinality(cache) - Cardinality(cache'), FALSE, NoStats)
  /\ UNCHANGED <<clock, hitCount, missCount, logVars, acctVars, serviceVars>>

ResetStats ==
  /\ hitCount' = 0
  /\ missCount' = 0
  /\ ret' = CacheRet("resetStats", <<>>, JsUndefined, 0, FALSE, NoStats)
  /\ UNCHANGED <<clock, cache, logVars, acctVars, serviceVars>>

\* the wall clock advances between calls
CacheTick ==
  /\ clock < MaxClock
  /\ clock' = clock + 1
  /\ UNCHANGED <<cacheVars, logVars, acctVars, serviceVars>>

----------------------------------------------------------------------------
(* Table `logs` and the Logger *)

Levels == {"debug", "info", "warn", "error"}

\* LOG_LEVELS
LOG_LEVELS == [debug |-> 0, info |-> 1, warn |-> 2, error |-> 3]

\* SQL NULL in a text column, and in a column of JSON text
NullText == "<NULL>"
NullJson == <<"<NULL>">>

\* a string property that is undefined
UndefText == "<undefined>"

\* this.serverId
ServerId == "srv"

\* the context argument left out: every context?.x is undefined
NoContext ==
  [tool |-> UndefText, action |-> UndefText, arguments |-> JsUndefined,
   result |-> JsUndefined, error |-> UndefText, duration |-> Omitted,
   sessionId |-> UndefText, projectId |-> UndefText, serverId |-> UndefText,
   metadata |-> JsUndefined]

\* the context logTool builds for a tool call
ToolContext ==
  [NoContext EXCEPT !.tool = "listChats", !.action = "execute",
                    !.arguments = JsObject(<<>>), !.result = JsString(<<"o", "k">>),
                    !.duration = 0, !.sessionId = "s1"]

Contexts == {NoContext, ToolContext}

\* x || null on a string
TextOrNull(x) == IF x = UndefText \/ x = "" THEN NullText ELSE x

\* x ?? null on a string
TextCoalesceNull(x) == IF x = UndefText THEN NullText ELSE x

\* x || null on a number
NumberOrNull(n) == IF n = Omitted \/ ~Truthy(n) THEN SqlNull ELSE n

\* x ?? null on a number
NumberCoalesceNull(n) == IF n = Omitted THEN SqlNull ELSE n

\* x ? JSON.stringify(x) : null on an object
ObjectJsonOrNull(v) == IF v.t = "undefined" THEN NullJson ELSE JsonStringify(v)

\* x !== undefined ? JSON.stringify(x) : null
DefinedJsonOrNull(v) == IF v.t = "undefined" THEN NullJson ELSE JsonStringify(v)

\* faulty variant: a level equal to minLevel is dropped too
IsFilteredAtMinLevel(level, min) == LOG_LEVELS[level] <= LOG_LEVELS[min]

\* LOG_LEVELS[level] < LOG_LEVELS[this.minLevel]
IsFiltered(level, min) == LOG_LEVELS[level] < LOG_LEVELS[min]

\* faulty variant: every entry is written under the first id
RawLogRowSameId(id, now, level, ctx) ==
  [id |-> 1, timestamp |-> now, level |-> level,
   tool |-> TextOrNull(ctx.tool),
   action |-> TextOrNull(ctx.action),
   arguments |-> ObjectJsonOrNull(ctx.arguments),
   result |-> DefinedJsonOrNull(ctx.result),
   error |-> TextOrNull(ctx.error),
   duration |-> NumberOrNull(ctx.duration),
   sessionId |-> TextOrNull(ctx.sessionId),
   projectId |-> TextOrNull(ctx.projectId),
   serverId |-> TextOrNull(IF TextOrNull(ctx.serverId) = NullText
                           THEN ServerId ELSE ctx.serverId),
   metadata |-> ObjectJsonOrNull(ctx.metadata)]

\* the row the raw-statement Logger.log inserts
RawLogRow(id, now, level, ctx) ==
  [id |-> id, timestamp |-> now, level |-> level,
   tool |-> TextOrNull(ctx.tool),
   action |-> TextOrNull(ctx.action),
   arguments |-> ObjectJsonOrNull(ctx.arguments),
   result |-> DefinedJsonOrNull(ctx.result),
   error |-> TextOrNull(ctx.error),
   duration |-> NumberOrNull(ctx.duration),
   sessionId |-> TextOrNull(ctx.sessionId),
   projectId |-> TextOrNull(ctx.projectId),
   serverId |-> TextOrNull(IF TextOrNull(ctx.serverId) = NullText
                           THEN ServerId ELSE ctx.serverId),
   metadata |-> ObjectJsonOrNull(ctx.metadata)]

\* the row the ORM-mediated Logger.log inserts
OrmLogRow(id, now, level, ctx) ==
  [id |-> id, timestamp |-> now, level |-> level,
   tool |-> TextCoalesceNull(ctx.tool),
   action |-> TextCoalesceNull(ctx.action),
   arguments |-> ObjectJsonOrNull(ctx.arguments),
   result |-> DefinedJsonOrNull(ctx.result),
   error |-> TextCoalesceNull(ctx.error),
   duration |-> NumberCoalesceNull(ctx.duration),
   sessionId |-> TextCoalesceNull(ctx.sessionId),
   projectId |-> TextCoalesceNull(ctx.projectId),
   serverId |-> IF ctx.serverId = UndefText THEN ServerId ELSE ctx.serverId,
   metadata |-> ObjectJsonOrNull(ctx.metadata)]

LogRet(op, level, arg, num) == [op |-> op, level |-> level, arg |-> arg, num |-> num]

Min(a, b) == IF a <= b THEN a ELSE b

\* faulty variant: ORDER BY timestamp ASC keeps the oldest rows
KeepSetsOldest(table, n) ==
  {K \in SUBSET table :
     /\ Cardinality(K) = Min(n, Cardinality(table))
     /\ \A a \in K, b \in table \ K : a.timestamp <= b.timestamp}

\* SELECT id FROM logs ORDER BY timestamp DESC LIMIT n: the row sets it can return
\* (SQL leaves the order among equal timestamps open)
KeepSets(table, n) ==
  {K \in SUBSET table :
     /\ Cardinality(K) = Min(n, Cardinality(table))
     /\ \A a \in K, b \in table \ K : a.timestamp >= b.timestamp}

IdsOf(rows) == {r.id : r \in rows}

\* Logger.log (raw statements): debug, info, warn and error call it with their level
Log(level, ctx) ==
  /\ IF IsFiltered(level, minLevel)
     THEN UNCHANGED <<logs, nextId, serviceVars>>
     ELSE /\ nextId < MaxLogs
          /\ nextId' = nextId + 1
          /\ logs' = logs \cup {RawLogRow(nextId + 1, clock, level, ctx)}
  /\ logRet' = LogRet("log", level, 0, 0)
  /\ UNCHANGED <<clock, minLevel, cacheVars, queryRet, acctVars, trimVars, serviceVars>>

\* Logger.trim (raw statements): one DELETE ... WHERE id NOT IN (SELECT ...)
Trim(maxEntries) ==
  /\ \E K \in KeepSets(logs, maxEntries) :
       /\ logs' = {r \in logs : r.id \in IdsOf(K)}
       /\ logRet' = LogRet("trim", "", maxEntries,
                           Cardinality(logs) - Cardinality(logs'))
  /\ UNCHANGED <<clock, minLevel, nextId, cacheVars, queryRet, acctVars, trimVars,
               serviceVars>>

\* Logger.clear
LogClear ==
  /\ logs' = {}
  /\ logRet' = LogRet("clear", "", 0, 0)
  /\ UNCHANGED <<clock, minLevel, nextId, cacheVars, queryRet, acctVars, trimVars,
               serviceVars>>

LogTick ==
  /\ clock < MaxLogClock
  /\ clock' = clock + 1
  /\ UNCHANGED <<cacheVars, logVars, acctVars, serviceVars>>

----------------------------------------------------------------------------
(* Logger.logTool, logToolError, query and count (raw statements) *)

\* const limit = options.limit || 100
DefaultLimit == 100

\* the options argument left out, or {}
NoOptions ==
  [level |-> UndefText, tool |-> UndefText, sessionId |-> UndefText,
   startDate |-> Omitted, endDate |-> Omitted, limit |-> Omitted, offset |-> Omitted]

\* the options a LogQueryOptions object supplies
GivenFields(o) ==
  {f \in {"level", "tool", "sessionId"} : o[f] # UndefText}
    \cup {f \in {"startDate", "endDate", "limit", "offset"} : o[f] # Omitted}

\* LogQueryOptions objects that supply at most two options
QueryOptions ==
  {o \in [level : {UndefText, "", "info", "error"},
          tool : {UndefText, "", "chat"},
          sessionId : {UndefText, "s1"},
          startDate : {Omitted, 0, 1, 2},
          endDate : {Omitted, 0, 1, 2},
          limit : {Omitted, 0, 1, 2},
          offset : {Omitted, 0, 1, 2}] : Cardinality(GivenFields(o)) <= 2}

\* Omit<LogQueryOptions, 'limit' | 'offset'>
CountOptions == {o \in QueryOptions : o.limit = Omitted /\ o.offset = Omitted}

\* if (options.level): a string option that is given and not empty
TextGiven(x) == x # UndefText /\ x # ""

\* if (options.startDate): a number option that is given and not 0
NumberGiven(n) == n # Omitted /\ Truthy(n)

\* the WHERE clause query builds (a comparison with NULL is not true)
QueryWhere(r, o) ==
  /\ TextGiven(o.level) => r.level = o.level
  /\ TextGiven(o.tool) => (r.tool # NullText /\ r.tool = o.tool)
  /\ TextGiven(o.sessionId) => (r.sessionId # NullText /\ r.sessionId = o.sessionId)
  /\ NumberGiven(o.startDate) => r.timestamp >= o.startDate
  /\ NumberGiven(o.endDate) => r.timestamp <= o.endDate

\* faulty variant: count leaves the tool condition out
CountWhereIgnoringTool(r, o) ==
  /\ TextGiven(o.level) => r.level = o.level
  /\ TextGiven(o.sessionId) => (r.sessionId # NullText /\ r.sessionId = o.sessionId)
  /\ NumberGiven(o.startDate) => r.timestamp >= o.startDate
  /\ NumberGiven(o.endDate) => r.timestamp <= o.endDate

\* the WHERE clause count builds
CountWhere(r, o) ==
  /\ TextGiven(o.level) => r.level = o.level
  /\ TextGiven(o.tool) => (r.tool # NullText /\ r.tool = o.tool)
  /\ TextGiven(o.sessionId) => (r.sessionId # NullText /\ r.sessionId = o.sessionId)
  /\ NumberGiven(o.startDate) => r.timestamp >= o.startDate
  /\ NumberGiven(o.endDate) => r.timestamp <= o.endDate

\* x || d on a number
NumberOr(n, d) == IF n = Omitted \/ ~Truthy(n) THEN d ELSE n

Max(a, b) == IF a >= b THEN a ELSE b

\* ORDER BY timestamp DESC: the orders in which rows can come back
\* (SQL leaves the order among equal timestamps open)
OrderByTimestampDesc(rows) ==
  {q \in [1 .. Cardinality(rows) -> rows] :
     /\ \A i, j \in 1 .. Cardinality(rows) : i < j => q[i] # q[j]
     /\ \A i, j \in 1 .. Cardinality(rows) : i < j => q[i].timestamp >= q[j].timestamp}

\* LIMIT limit OFFSET offset
LimitOffset(q, limit, offset) ==
  [i \in 1 .. Min(limit, Max(0, Len(q) - offset)) |-> q[offset + i]]

\* x ? JSON.parse(x) : undefined on a column of JSON text
ParseOrUndefined(text) == IF text = NullJson THEN JsUndefined ELSE JsonParse(text)

\* rowToLogEntry (raw statements): NULL columns come back as null
rowToLogEntry(row) ==
  [id |-> row.id, timestamp |-> row.timestamp, level |-> row.level,
   tool |-> row.tool, action |-> row.action,
   arguments |-> ParseOrUndefined(row.arguments),
   result |-> ParseOrUndefined(row.result),
   error |-> row.error, duration |-> row.duration,
   sessionId |-> row.sessionId, projectId |-> row.projectId,
   serverId |-> row.serverId,
   metadata |-> ParseOrUndefined(row.metadata)]

QueryRet(op, opts, entries, count) ==
  [op |-> op, opts |-> opts, entries |-> entries, count |-> count]

\* Logger.query
Query(options) ==
  /\ \E q \in OrderByTimestampDesc({r \in logs : QueryWhere(r, options)}) :
       LET rows == LimitOffset(q, NumberOr(options.limit, DefaultLimit),
                               NumberOr(options.offset, 0))
       IN queryRet' = QueryRet("query", options,
                               [i \in 1 .. Len(rows) |-> rowToLogEntry(rows[i])], 0)
  /\ UNCHANGED <<clock, logs, minLevel, nextId, logRet, cacheVars, acctVars, trimVars,
               serviceVars>>

\* Logger.count
Count(options) ==
  /\ queryRet' = QueryRet("count", options, <<>>,
                          Cardinality({r \in logs : CountWhere(r, options)}))
  /\ UNCHANGED <<clock, logs, minLevel, nextId, logRet, cacheVars, acctVars, trimVars,
               serviceVars>>

\* the context a caller passes to logTool / logToolError: none, or a session id
SessionContext == [NoContext EXCEPT !.sessionId = "s1"]

\* an Error object's message
ErrorMessages == {"Test error"}

\* Logger.logTool: this.log('info', ..., {...context, tool, action, arguments, result,
\* duration})
LogTool(tool, action, args, result, duration, context) ==
  LET ctx == [context EXCEPT !.tool = tool, !.action = action, !.arguments = args,
                             !.result = result, !.duration = duration]
  IN /\ IF IsFiltered("info", minLevel)
        THEN UNCHANGED <<logs, nextId, serviceVars>>
        ELSE /\ nextId < MaxLogs
             /\ nextId' = nextId + 1
             /\ logs' = logs \cup {RawLogRow(nextId + 1, clock, "info", ctx)}
     /\ logRet' = LogRet("logTool", "info", ctx, 0)
     /\ UNCHANGED <<clock, minLevel, cacheVars, queryRet, acctVars, trimVars, serviceVars>>

\* Logger.logToolError: this.log('error', ..., {...context, tool, action, arguments,
\* error: error.message, duration})
LogToolError(tool, action, args, message, duration, context) ==
  LET ctx == [context EXCEPT !.tool = tool, !.action = action, !.arguments = args,
                             !.error = message, !.duration = duration]
  IN /\ IF IsFiltered("error", minLevel)
        THEN UNCHANGED <<logs, nextId, serviceVars>>
        ELSE /\ nextId < MaxLogs
             /\ nextId' = nextId + 1
             /\ logs' = logs \cup {RawLogRow(nextId + 1, clock, "error", ctx)}
     /\ logRet' = LogRet("logToolError", "error", ctx, 0)
     /\ UNCHANGED <<clock, minLevel, cacheVars, queryRet, acctVars, trimVars, serviceVars>>

----------------------------------------------------------------------------
(* Table `sessions` and the AccountManager (ORM-mediated) *)

Phones == {"+1111111111", "+2222222222"}

\* the ids callers pass: those handed out so far or later, and 0 for an unknown id
AcctIds == 0 .. MaxAccounts

\* AccountStatus
AccountStatuses == {"active", "inactive", "pending_auth", "error"}

\* the userId and username arguments of activateSession
ActivateArgs == {<<"u1", "bob">>, <<"u1", UndefText>>, <<"", UndefText>>}

\* undefined / null as a returned value
NoValue == [absent |-> TRUE]

AcctRet(op, arg, val, raised) == [op |-> op, arg |-> arg, val |-> val, raised |-> raised]

\* faulty variant: the table has no unique index on phone
NoUniqueIndex(table, phone) == FALSE

\* phone text NOT NULL UNIQUE: an insert of this phone fails
UniqueViolated(table, phone) == \E r \in table : r.phone = phone

\* where(eq(sessionsTable.id, id))
RowsById(table, id) == {r \in table : r.id = id}

\* rowToSession
rowToSession(row) ==
  [id |-> row.id, phone |-> row.phone, userId |-> row.userId,
   username |-> IF row.username = NullText THEN UndefText ELSE row.username,
   createdAt |-> row.createdAt, lastActiveAt |-> row.lastActiveAt,
   isActive |-> Truthy(row.isActive)]

\* faulty variant: a row that was never activated reads as pending_auth
rowToAccountPending(row) ==
  [id |-> row.id, phone |-> row.phone,
   status |-> IF Truthy(row.isActive) THEN "active"
              ELSE IF row.userId = "" THEN "pending_auth" ELSE "inactive",
   session |-> IF row.userId # "" THEN rowToSession(row) ELSE NoValue,
   createdAt |-> row.createdAt, updatedAt |-> row.lastActiveAt]

\* rowToAccount
rowToAccount(row) ==
  [id |-> row.id, phone |-> row.phone,
   status |-> IF Truthy(row.isActive) THEN "active" ELSE "inactive",
   session |-> IF row.userId # "" THEN rowToSession(row) ELSE NoValue,
   createdAt |-> row.createdAt, updatedAt |-> row.lastActiveAt]

\* orderBy(desc(createdAt)): the orders in which rows can come back
OrderByCreatedAtDesc(rows) ==
  {q \in [1 .. Cardinality(rows) -> rows] :
     /\ \A i, j \in 1 .. Cardinality(rows) : i < j => q[i] # q[j]
     /\ \A i, j \in 1 .. Cardinality(rows) : i < j => q[i].createdAt >= q[j].createdAt}

\* orderBy(desc(lastActiveAt))
OrderByLastActiveAtDesc(rows) ==
  {q \in [1 .. Cardinality(rows) -> rows] :
     /\ \A i, j \in 1 .. Cardinality(rows) : i < j => q[i] # q[j]
     /\ \A i, j \in 1 .. Cardinality(rows) :
          i < j => q[i].lastActiveAt >= q[j].lastActiveAt}

\* where(eq(sessionsTable.isActive, 1))
ActiveRows(table) == {r \in table : r.isActive = 1}

\* createAccount: the id is drawn, then the insert runs and raises on a phone that
\* is already stored
CreateAccount(phone) ==
  /\ acctNextId < MaxAccounts
  /\ acctNextId' = acctNextId + 1
  /\ LET account == [id |-> acctNextId + 1, phone |-> phone, status |-> "pending_auth",
                     session |-> NoValue, createdAt |-> clock, updatedAt |-> clock]
         row == [id |-> acctNextId + 1, phone |-> phone, userId |-> "",
                 username |-> NullText, createdAt |-> clock, lastActiveAt |-> clock,
                 isActive |-> 0]
     IN IF UniqueViolated(accounts, phone)
        THEN /\ accounts' = accounts
             /\ acctRet' = AcctRet("createAccount", phone, NoValue, TRUE)
        ELSE /\ accounts' = accounts \cup {row}
             /\ acctRet' = AcctRet("createAccount", phone, account, FALSE)
  /\ UNCHANGED <<clock, acctRead, cacheVars, logVars, serviceVars>>

\* update(sessionsTable).set({ isActive }).where(eq(sessionsTable.id, id))
UpdateAccountStatus(id, status) ==
  /\ accounts' = {IF r.id = id
                  THEN [r EXCEPT !.isActive = IF status = "active" THEN 1 ELSE 0]
                  ELSE r : r \in accounts}
  /\ acctRet' = AcctRet("updateAccountStatus", id, NoValue, FALSE)
  /\ UNCHANGED <<clock, acctNextId, acctRead, cacheVars, logVars, serviceVars>>

\* an activation that leaves lastActiveAt as it was
ActivateSessionStale(id, userId, username) ==
  /\ accounts' = {IF r.id = id
                  THEN [r EXCEPT !.userId = userId,
                                 !.username = TextCoalesceNull(username),
                                 !.isActive = 1]
                  ELSE r : r \in accounts}
  /\ acctRet' = AcctRet("activateSession", id, NoValue, FALSE)
  /\ UNCHANGED <<clock, acctNextId, acctRead, cacheVars, logVars, serviceVars>>

\* an activation that inserts a row when the id has none
ActivateSessionUpsert(id, userId, username) ==
  /\ accounts' = IF RowsById(accounts, id) = {}
                 THEN accounts \cup {[id |-> id, phone |-> "", userId |-> userId,
                                      username |-> TextCoalesceNull(username),
                                      createdAt |-> clock, lastActiveAt |-> clock,
                                      isActive |-> 1]}
                 ELSE {IF r.id = id
                       THEN [r EXCEPT !.userId = userId,
                                      !.username = TextCoalesceNull(username),
                                      !.lastActiveAt = clock, !.isActive = 1]
                       ELSE r : r \in accounts}
  /\ acctRet' = AcctRet("activateSession", id, NoValue, FALSE)
  /\ UNCHANGED <<clock, acctNextId, acctRead, cacheVars, logVars, serviceVars>>

\* update(sessionsTable).set({ userId, username: username ?? null, lastActiveAt: now,
\* isActive: 1 }).where(eq(sessionsTable.id, id))
ActivateSession(id, userId, username) ==
  /\ accounts' = {IF r.id = id
                  THEN [r EXCEPT !.userId = userId,
                                 !.username = TextCoalesceNull(username),
                                 !.lastActiveAt = clock, !.isActive = 1]
                  ELSE r : r \in accounts}
  /\ acctRet' = AcctRet("activateSession", id, NoValue, FALSE)
  /\ UNCHANGED <<clock, acctNextId, acctRead, cacheVars, logVars, serviceVars>>

\* a deactivation that also forgets the user
DeactivateSessionClearingUser(id) ==
  /\ accounts' = {IF r.id = id
                  THEN [r EXCEPT !.isActive = 0, !.userId = "", !.username = NullText]
                  ELSE r : r \in accounts}
  /\ acctRet' = AcctRet("deactivateSession", id, NoValue, FALSE)
  /\ UNCHANGED <<clock, acctNextId, acctRead, cacheVars, logVars, serviceVars>>

\* update(sessionsTable).set({ isActive: 0 }).where(eq(sessionsTable.id, id))
DeactivateSession(id) ==
  /\ accounts' = {IF r.id = id THEN [r EXCEPT !.isActive = 0] ELSE r : r \in accounts}
  /\ acctRet' = AcctRet("deactivateSession", id, NoValue, FALSE)
  /\ UNCHANGED <<clock, acctNextId, acctRead, cacheVars, logVars, serviceVars>>

\* a delete that also removes the log entries of the account's session
DeleteAccountCascading(id) ==
  /\ accounts' = accounts \ RowsById(accounts, id)
  /\ logs' = {r \in logs : r.sessionId # ToString(id)}
  /\ acctRet' = AcctRet("deleteAccount", id, accounts' # accounts, FALSE)
  /\ UNCHANGED <<clock, acctNextId, acctRead, cacheVars, minLevel, nextId, logRet,
                 trimVars, queryRet, serviceVars>>

\* a delete that reports success whether or not a row was removed
DeleteAccountAlwaysTrue(id) ==
  /\ accounts' = accounts \ RowsById(accounts, id)
  /\ acctRet' = AcctRet("deleteAccount", id, TRUE, FALSE)
  /\ UNCHANGED <<clock, acctNextId, acctRead, cacheVars, logVars, serviceVars>>

\* deleteAccount returns result.changes > 0
DeleteAccount(id) ==
  /\ accounts' = accounts \ RowsById(accounts, id)
  /\ acctRet' = AcctRet("deleteAccount", id, accounts' # accounts, FALSE)
  /\ UNCHANGED <<clock, acctNextId, acctRead, cacheVars, logVars, serviceVars>>

\* a touch that moves createdAt along with lastActiveAt
TouchSessionRestamping(id) ==
  /\ accounts' = {IF r.id = id THEN [r EXCEPT !.lastActiveAt = clock, !.createdAt = clock]
                  ELSE r : r \in accounts}
  /\ acctRet' = AcctRet("touchSession", id, NoValue, FALSE)
  /\ UNCHANGED <<clock, acctNextId, acctRead, cacheVars, logVars, serviceVars>>

TouchSession(id) ==
  /\ accounts' = {IF r.id = id THEN [r EXCEPT !.lastActiveAt = clock] ELSE r :
                    r \in accounts}
  /\ acctRet' = AcctRet("touchSession", id, NoValue, FALSE)
  /\ UNCHANGED <<clock, acctNextId, acctRead, cacheVars, logVars, serviceVars>>

\* the value a read hands to its caller
AcctReturn(op, arg, val) ==
  /\ acctRead' = AcctRet(op, arg, val, FALSE)
  /\ UNCHANGED <<clock, accounts, acctNextId, acctRet, cacheVars, logVars, serviceVars>>

GetAccount(id) ==
  IF RowsById(accounts, id) = {}
  THEN AcctReturn("getAccount", id, NoValue)
  ELSE \E row \in RowsById(accounts, id) :
         AcctReturn("getAccount", id, rowToAccount(row))

GetAccountByPhone(phone) ==
  IF {r \in accounts : r.phone = phone} = {}
  THEN AcctReturn("getAccountByPhone", phone, NoValue)
  ELSE \E row \in {r \in accounts : r.phone = phone} :
         AcctReturn("getAccountByPhone", phone, rowToAccount(row))

GetAllAccounts ==
  \E q \in OrderByCreatedAtDesc(accounts) :
    AcctReturn("getAllAccounts", 0, [i \in 1 .. Len(q) |-> rowToAccount(q[i])])

GetActiveAccounts ==
  \E q \in OrderByLastActiveAtDesc(ActiveRows(accounts)) :
    AcctReturn("getActiveAccounts", 0, [i \in 1 .. Len(q) |-> rowToAccount(q[i])])

GetSession(id) ==
  IF RowsById(accounts, id) = {}
  THEN AcctReturn("getSession", id, NoValue)
  ELSE \E row \in RowsById(accounts, id) :
         AcctReturn("getSession", id, rowToSession(row))

\* a getActiveSession without the ordering: any active row
GetActiveSessionAny ==
  IF ActiveRows(accounts) = {}
  THEN AcctReturn("getActiveSession", 0, NoValue)
  ELSE \E row \in ActiveRows(accounts) :
         AcctReturn("getActiveSession", 0, rowToSession(row))

\* getActiveSession: the first row of the active ones by lastActiveAt descending
GetActiveSession ==
  IF ActiveRows(accounts) = {}
  THEN AcctReturn("getActiveSession", 0, NoValue)
  ELSE \E q \in OrderByLastActiveAtDesc(ActiveRows(accounts)) :
         AcctReturn("getActiveSession", 0, rowToSession(q[1]))

\* AccountManager.count
AcctCount == AcctReturn("count", 0, Cardinality(accounts))

(* The raw-statement AccountManager, over the sessions table that
   initializeDatabase creates *)

\* CREATE TABLE sessions: the columns of the table
SessionsColumns ==
  {"id", "phone", "user_id", "username", "created_at", "last_active_at", "is_active"}

\* UPDATE sessions SET is_active = ?, updated_at = ? WHERE id = ?: the columns set
UpdateStatusColumns == {"is_active", "updated_at"}

\* db.prepare compiles the statement and throws 'no such column' for a column the
\* table does not have
NoSuchColumn(columns) == columns \ SessionsColumns # {}

\* INSERT INTO sessions ... VALUES (id, phone, '', null, now, now, 0)
RawCreateAccount(phone) == CreateAccount(phone)

\* prepare runs before stmt.run, so nothing is written when it throws
RawUpdateAccountStatus(id, status) ==
  /\ IF NoSuchColumn(UpdateStatusColumns)
     THEN /\ accounts' = accounts
          /\ acctRet' = AcctRet("updateAccountStatus", id, NoValue, TRUE)
     ELSE /\ accounts' = {IF r.id = id
                          THEN [r EXCEPT !.isActive = IF status = "active" THEN 1 ELSE 0]
                          ELSE r : r \in accounts}
          /\ acctRet' = AcctRet("updateAccountStatus", id, NoValue, FALSE)
  /\ UNCHANGED <<clock, acctNextId, acctRead, cacheVars, logVars, serviceVars>>

\* stmt.run(userId, username || null, now, id)
RawActivateSession(id, userId, username) ==
  /\ accounts' = {IF r.id = id
                  THEN [r EXCEPT !.userId = userId,
                                 !.username = TextOrNull(username),
                                 !.lastActiveAt = clock, !.isActive = 1]
                  ELSE r : r \in accounts}
  /\ acctRet' = AcctRet("activateSession", id, NoValue, FALSE)
  /\ UNCHANGED <<clock, acctNextId, acctRead, cacheVars, logVars, serviceVars>>

\* UPDATE sessions SET is_active = 0 WHERE id = ?
RawDeactivateSession(id) == DeactivateSession(id)

\* username: row.username || undefined
RawRowToSession(row) ==
  [id |-> row.id, phone |-> row.phone, userId |-> row.userId,
   username |-> IF row.username = NullText \/ row.username = ""
                THEN UndefText ELSE row.username,
   createdAt |-> row.createdAt, lastActiveAt |-> row.lastActiveAt,
   isActive |-> Truthy(row.isActive)]

RawRowToAccount(row) ==
  [id |-> row.id, phone |-> row.phone,
   status |-> IF Truthy(row.isActive) THEN "active" ELSE "inactive",
   session |-> IF row.userId # "" THEN RawRowToSession(row) ELSE NoValue,
   createdAt |-> row.createdAt, updatedAt |-> row.lastActiveAt]

\* SELECT * FROM sessions WHERE id = ?
RawGetAccount(id) ==
  IF RowsById(accounts, id) = {}
  THEN AcctReturn("getAccount", id, NoValue)
  ELSE \E row \in RowsById(accounts, id) :
         AcctReturn("getAccount", id, RawRowToAccount(row))

\* SELECT * FROM sessions WHERE phone = ?
RawGetAccountByPhone(phone) ==
  IF {r \in accounts : r.phone = phone} = {}
  THEN AcctReturn("getAccountByPhone", phone, NoValue)
  ELSE \E row \in {r \in accounts : r.phone = phone} :
         AcctReturn("getAccountByPhone", phone, RawRowToAccount(row))

\* SELECT * FROM sessions ORDER BY created_at DESC
RawGetAllAccounts ==
  \E q \in OrderByCreatedAtDesc(accounts) :
    AcctReturn("getAllAccounts", 0, [i \in 1 .. Len(q) |-> RawRowToAccount(q[i])])

\* SELECT * FROM sessions WHERE is_active = 1 ORDER BY last_active_at DESC
RawGetActiveAccounts ==
  \E q \in OrderByLastActiveAtDesc(ActiveRows(accounts)) :
    AcctReturn("getActiveAccounts", 0, [i \in 1 .. Len(q) |-> RawRowToAccount(q[i])])

\* DELETE FROM sessions WHERE id = ?, returns result.changes > 0
RawDeleteAccount(id) == DeleteAccount(id)

\* UPDATE sessions SET last_active_at = ? WHERE id = ?
RawTouchSession(id) == TouchSession(id)

\* SELECT * FROM sessions WHERE id = ?
RawGetSession(id) ==
  IF RowsById(accounts, id) = {}
  THEN AcctReturn("getSession", id, NoValue)
  ELSE \E row \in RowsById(accounts, id) :
         AcctReturn("getSession", id, RawRowToSession(row))

\* SELECT * FROM sessions WHERE is_active = 1 ORDER BY last_active_at DESC LIMIT 1
RawGetActiveSession ==
  IF ActiveRows(accounts) = {}
  THEN AcctReturn("getActiveSession", 0, NoValue)
  ELSE \E q \in OrderByLastActiveAtDesc(ActiveRows(accounts)) :
         AcctReturn("getActiveSession", 0, RawRowToSession(q[1]))

\* SELECT COUNT(*) as count FROM sessions
RawCount == AcctReturn("count", 0, Cardinality(accounts))

\* no returned value is held: the caller of the last read has moved on
AcctNoneReturned == acctRead.op = "none"

\* the caller lets go of the value a read returned
AcctReadDone ==
  /\ ~AcctNoneReturned
  /\ acctRead' = AcctRet("none", 0, NoValue, FALSE)
  /\ UNCHANGED <<clock, accounts, acctNextId, acctRet, cacheVars, logVars, serviceVars>>

AcctTick ==
  /\ clock < MaxAcctClock
  /\ clock' = clock + 1
  /\ UNCHANGED <<cacheVars, logVars, acctVars, serviceVars>>

----------------------------------------------------------------------------
(* MockTelegramProvider: in-memory chats and messages behind a login flag.
   Every asynchronous operation first awaits simulateDelay() and touches the
   provider's state only afterwards, in one synchronous run; a definition below is
   that run, and constrains the provider's own fields only. *)

MaxSent == 2
MaxMockClock == 2

HourMs == 3600000
TwoHoursMs == 7200000
ThreeHoursMs == 10800000
DayMs == 86400000

ChatOrder == <<"chat-1", "chat-2", "chat-3">>
ChatIds == {ChatOrder[i] : i \in 1 .. Len(ChatOrder)}
ChatArgs == {"chat-1", "chat-3", "non-existent"}
Texts == {"Hello", "Bye"}
Limits == {0, 1, 50}
LoginPhones == {"+1234567890"}

NotAuthenticated == <<"Not authenticated">>
SimulatedError == <<"Simulated Telegram API error">>
ChatNotFound(chatId) == <<"Chat not found: ", chatId>>
NoError == <<>>

\* `msg-${n}`
MsgId(n) == <<"msg-", n>>

MockUser(id, username, firstName, lastName, isBot) ==
  [id |-> id, username |-> username, firstName |-> firstName, lastName |-> lastName,
   isBot |-> isBot]

MockUsers ==
  [u \in {"user-1", "user-2", "bot-1"} |->
     CASE u = "user-1" -> MockUser("user-1", "john_doe", "John", "Doe", FALSE)
       [] u = "user-2" -> MockUser("user-2", "jane_smith", "Jane", "Smith", FALSE)
       [] u = "bot-1" -> MockUser("bot-1", "helper_bot", "Helper", "Bot", TRUE)]

Message(id, chatId, from, text, timestamp, isRead) ==
  [id |-> id, chatId |-> chatId, from |-> from, text |-> text,
   timestamp |-> timestamp, isRead |-> isRead]

\* initializeMockData: the three chats, built at time now
MockChats(now) ==
  [c \in ChatIds |->
     CASE c = "chat-1" ->
            [id |-> "chat-1", title |-> "John Doe", type |-> "private",
             username |-> "john_doe", unreadCount |-> 2,
             lastMessage |-> Message(MsgId(1), "chat-1", MockUsers["user-1"],
                                     "Hey, how are you?", now - HourMs, FALSE)]
       [] c = "chat-2" ->
            [id |-> "chat-2", title |-> "Project Team", type |-> "group",
             username |-> "project_team", unreadCount |-> 5,
             lastMessage |-> Message(MsgId(2), "chat-2", MockUsers["user-2"],
                                     "Meeting at 3pm today", now - TwoHoursMs, FALSE)]
       [] c = "chat-3" ->
            [id |-> "chat-3", title |-> "Tech News", type |-> "channel",
             username |-> "tech_news", unreadCount |-> 0,
             lastMessage |-> Message(MsgId(3), "chat-3", MockUsers["bot-1"],
                                     "New TypeScript release available!",
                                     now - DayMs, TRUE)]]

\* initializeMockData: the message list of each chat
MockMessages(now) ==
  [c \in ChatIds |->
     CASE c = "chat-1" ->
            <<Message(MsgId(1), "chat-1", MockUsers["user-1"], "Hey, how are you?",
                      now - HourMs, FALSE),
              Message(MsgId(4), "chat-1", MockUsers["user-1"],
                      "Did you see the new update?", now - TwoHoursMs, TRUE)>>
       [] c = "chat-2" ->
            <<Message(MsgId(2), "chat-2", MockUsers["user-2"], "Meeting at 3pm today",
                      now - TwoHoursMs, FALSE),
              Message(MsgId(5), "chat-2", MockUsers["user-1"], "Got it, thanks!",
                      now - ThreeHoursMs, TRUE)>>
       [] c = "chat-3" ->
            <<Message(MsgId(3), "chat-3", MockUsers["bot-1"],
                      "New TypeScript release available!", now - DayMs, TRUE)>>]

\* Array.prototype.slice(0, end)
SliceTo(q, end) ==
  LET k == IF end < 0 THEN Max(Len(q) + end, 0) ELSE Min(end, Len(q))
  IN SubSeq(q, 1, k)

\* Array.from(this.chats.values()): the chats in insertion order
ChatList == [i \in 1 .. Len(ChatOrder) |-> chats[ChatOrder[i]]]

\* number of messages stored over all chats
StoredMessages == Len(messages["chat-1"]) + Len(messages["chat-2"]) + Len(messages["chat-3"])

MockRet(op, args, raised, val) == [op |-> op, args |-> args, raised |-> raised, val |-> val]

\* an operation that raises: the promise rejects and nothing was assigned
MockRaise(op, args, message) ==
  /\ mockRet' = MockRet(op, args, message, NoValue)
  /\ UNCHANGED <<isAuthenticatedFlag, currentUser, simulateError, chats, messages>>

\* an operation that only returns a value
MockReturn(op, args, val) ==
  /\ mockRet' = MockRet(op, args, NoError, val)
  /\ UNCHANGED <<isAuthenticatedFlag, currentUser, simulateError, chats, messages>>

SetSimulateError(value) ==
  /\ simulateError' = value
  /\ mockRet' = MockRet("setSimulateError", <<value>>, NoError, NoValue)
  /\ UNCHANGED <<isAuthenticatedFlag, currentUser, chats, messages>>

\* a login that never consults the error switch
LoginUnchecked(phone) ==
  /\ isAuthenticatedFlag' = TRUE
  /\ currentUser' = [id |-> "current-user", phone |-> phone,
                     username |-> "mock_user", firstName |-> "Mock",
                     lastName |-> "User", isBot |-> FALSE]
  /\ mockRet' = MockRet("login", <<phone>>, NoError, NoValue)
  /\ UNCHANGED <<simulateError, chats, messages>>

Login(phone) ==
  /\ IF simulateError
     THEN MockRaise("login", <<phone>>, SimulatedError)
     ELSE /\ isAuthenticatedFlag' = TRUE
          /\ currentUser' = [id |-> "current-user", phone |-> phone,
                             username |-> "mock_user", firstName |-> "Mock",
                             lastName |-> "User", isBot |-> FALSE]
          /\ mockRet' = MockRet("login", <<phone>>, NoError, NoValue)
          /\ UNCHANGED <<simulateError, chats, messages>>

Logout ==
  /\ IF simulateError
     THEN MockRaise("logout", <<>>, SimulatedError)
     ELSE /\ isAuthenticatedFlag' = FALSE
          /\ currentUser' = NoValue
          /\ mockRet' = MockRet("logout", <<>>, NoError, NoValue)
          /\ UNCHANGED <<simulateError, chats, messages>>

IsAuthenticated ==
  /\ MockReturn("isAuthenticated", <<>>, isAuthenticatedFlag)

GetCurrentUser ==
  /\ IF simulateError
     THEN MockRaise("getCurrentUser", <<>>, SimulatedError)
     ELSE MockReturn("getCurrentUser", <<>>, currentUser)

\* a listChats that does not look at the login flag
ListChatsUngated ==
  IF simulateError THEN MockRaise("listChats", <<>>, SimulatedError)
  ELSE MockReturn("listChats", <<>>, ChatList)

ListChats ==
  /\ IF simulateError THEN MockRaise("listChats", <<>>, SimulatedError)
     ELSE IF ~isAuthenticatedFlag THEN MockRaise("listChats", <<>>, NotAuthenticated)
     ELSE MockReturn("listChats", <<>>, ChatList)

\* this.messages.get(chatId) || []
MessagesOf(chatId) == IF chatId \in ChatIds THEN messages[chatId] ELSE <<>>

GetMessages(chatId, limit) ==
  /\ IF simulateError THEN MockRaise("getMessages", <<chatId, limit>>, SimulatedError)
     ELSE IF ~isAuthenticatedFlag
     THEN MockRaise("getMessages", <<chatId, limit>>, NotAuthenticated)
     ELSE MockReturn("getMessages", <<chatId, limit>>, SliceTo(MessagesOf(chatId), limit))

\* the message sendMessage builds
NewMessage(chatId, text) ==
  Message(MsgId(clock), chatId,
          [id |-> "current-user",
           username |-> IF currentUser = NoValue THEN UndefText ELSE currentUser.username,
           firstName |-> IF currentUser = NoValue THEN UndefText ELSE currentUser.firstName,
           lastName |-> IF currentUser = NoValue THEN UndefText ELSE currentUser.lastName,
           isBot |-> FALSE],
          text, clock, TRUE)

\* the bound on stored messages has room for one more
RoomToSend ==
  StoredMessages < Len(MockMessages(0)["chat-1"]) + Len(MockMessages(0)["chat-2"])
                     + Len(MockMessages(0)["chat-3"]) + MaxSent

\* a sendMessage that pushes the new message to the end of the list
SendMessageAtEnd(chatId, text) ==
  /\ (~simulateError /\ isAuthenticatedFlag /\ chatId \in ChatIds) => RoomToSend
  /\ IF simulateError THEN MockRaise("sendMessage", <<chatId, text>>, SimulatedError)
     ELSE IF ~isAuthenticatedFlag
     THEN MockRaise("sendMessage", <<chatId, text>>, NotAuthenticated)
     ELSE IF chatId \notin ChatIds
     THEN MockRaise("sendMessage", <<chatId, text>>, ChatNotFound(chatId))
     ELSE /\ messages' = [messages EXCEPT
                             ![chatId] = Append(messages[chatId], NewMessage(chatId, text))]
          /\ chats' = [chats EXCEPT ![chatId].lastMessage = NewMessage(chatId, text)]
          /\ mockRet' = MockRet("sendMessage", <<chatId, text>>, NoError, NoValue)
          /\ UNCHANGED <<isAuthenticatedFlag, currentUser, simulateError>>

SendMessage(chatId, text) ==
  /\ (~simulateError /\ isAuthenticatedFlag /\ chatId \in ChatIds) => RoomToSend
  /\ IF simulateError THEN MockRaise("sendMessage", <<chatId, text>>, SimulatedError)
     ELSE IF ~isAuthenticatedFlag
     THEN MockRaise("sendMessage", <<chatId, text>>, NotAuthenticated)
     ELSE IF chatId \notin ChatIds
     THEN MockRaise("sendMessage", <<chatId, text>>, ChatNotFound(chatId))
     ELSE /\ messages' = [messages EXCEPT
                             ![chatId] = <<NewMessage(chatId, text)>> \o messages[chatId]]
          /\ chats' = [chats EXCEPT ![chatId].lastMessage = NewMessage(chatId, text)]
          /\ mockRet' = MockRet("sendMessage", <<chatId, text>>, NoError, NoValue)
          /\ UNCHANGED <<isAuthenticatedFlag, currentUser, simulateError>>

\* reset: synchronous, and rebuilds the mock data at the time of the call
Reset ==
  /\ isAuthenticatedFlag' = FALSE
  /\ currentUser' = NoValue
  /\ chats' = MockChats(clock)
  /\ messages' = MockMessages(clock)
  /\ mockRet' = MockRet("reset", <<>>, NoError, NoValue)
  /\ UNCHANGED simulateError

\* what a provider call leaves alone
MockOthers == UNCHANGED <<clock, cacheVars, logVars, acctVars, srvVars, microtasks>>

MockNoneReturned == mockRet.op = "none"

\* the caller lets go of what the last call returned
MockDone ==
  /\ ~MockNoneReturned
  /\ mockRet' = MockRet("none", <<>>, NoError, NoValue)
  /\ UNCHANGED <<isAuthenticatedFlag, currentUser, simulateError, chats, messages>>
  /\ MockOthers

MockTick ==
  /\ clock < MaxMockClock
  /\ clock' = clock + 1
  /\ UNCHANGED <<cacheVars, logVars, acctVars, serviceVars>>

\* no provider has been constructed
NoProvider ==
  /\ isAuthenticatedFlag = FALSE
  /\ currentUser = NoValue
  /\ simulateError = FALSE
  /\ chats = <<>>
  /\ messages = <<>>
  /\ mockRet = MockRet("none", <<>>, NoError, NoValue)

\* new MockTelegramProvider()
MockNew ==
  /\ isAuthenticatedFlag = FALSE
  /\ currentUser = NoValue
  /\ simulateError = FALSE
  /\ chats = MockChats(clock)
  /\ messages = MockMessages(clock)
  /\ mockRet = MockRet("none", <<>>, NoError, NoValue)

----------------------------------------------------------------------------
(* TelegramMCPServer: start(), stop(), the close and error handlers and the
   tool-call handler over the one handle getDatabase returns. start() awaits the
   SDK's connect() and stop() its close(): each is two steps, the call up to the
   await and the continuation, and other calls run in between. The tool-call
   handler awaits the provider's timer and is two steps as well. *)

MaxCalls == 2
MaxStarts == 2
MaxStops == 2

DefaultMessageLimit == 50

DbClosedError == <<"The database connection is not open">>
AlreadyRunning == <<"Server is already running">>

SrvRet(op, arg, raised, val) == [op |-> op, arg |-> arg, raised |-> raised, val |-> val]

\* a statement the Logger runs on the handle, and whether the handle was open
StoreOp(what) == [what |-> what, open |-> dbOpen]

\* Logger.log returns before touching the handle for a level below minLevel
Writes(level) == ~IsFiltered(level, minLevel)

\* the store operations one Logger call issues
Logged(level, what) == IF Writes(level) THEN <<StoreOp(what)>> ELSE <<>>

\* db.prepare on a closed handle throws
LogThrows(level) == Writes(level) /\ ~dbOpen

Request(name, chatId, text) == [name |-> name, chatId |-> chatId, text |-> text]

ToolRequests ==
  {Request("listChats", UndefText, UndefText),
   Request("getMessages", "chat-1", UndefText),
   Request("getMessages", UndefText, UndefText),
   Request("sendMessage", "chat-1", "Hello"),
   Request("sendMessage", "non-existent", "Hello"),
   Request("sendMessage", "chat-1", UndefText),
   Request("markAsRead", "chat-1", UndefText),
   Request("markAsRead", "", UndefText),
   Request("unknownTool", UndefText, UndefText)}

\* !chatId, !text
Falsy(x) == x = UndefText \/ x = ""

\* 'chatId is required', 'chatId and text are required'
MissingArgs(req) ==
  \/ req.name \in {"getMessages", "markAsRead"} /\ Falsy(req.chatId)
  \/ req.name = "sendMessage" /\ (Falsy(req.chatId) \/ Falsy(req.text))

KnownTools == {"listChats", "getMessages", "sendMessage", "markAsRead"}

\* the cases of the switch that await the TelegramService
AwaitsService(req) == req.name \in {"listChats", "getMessages", "sendMessage"}

\* TelegramService.getChats / getMessages / sendMessage: the provider call made
ServiceCall(req) ==
  CASE req.name = "listChats" -> ListChats
    [] req.name = "getMessages" -> GetMessages(req.chatId, DefaultMessageLimit)
    [] req.name = "sendMessage" -> SendMessage(req.chatId, req.text)

\* what a server handler leaves alone besides the provider
SrvOthers == UNCHANGED <<clock, cacheVars, logVars, acctVars, microtasks>>

\* what the server calls that are not tool calls leave alone
SrvCallOthers ==
  /\ UNCHANGED <<pending, mockVars>>
  /\ SrvOthers

\* start(), to its await: the isRunning check, the first log line and the call of
\* server.connect(transport), from which the Server holds the transport
Start ==
  /\ starting < MaxStarts
  /\ IF isRunning
     THEN /\ srvOps' = <<>>
          /\ srvRet' = SrvRet("start", NoValue, AlreadyRunning, NoValue)
          /\ UNCHANGED <<connected, starting>>
     ELSE IF LogThrows("info")
     THEN /\ srvOps' = <<StoreOp("Starting Telegram MCP Server")>>
          /\ srvRet' = SrvRet("start", NoValue, DbClosedError, NoValue)
          /\ UNCHANGED <<connected, starting>>
     ELSE /\ srvOps' = Logged("info", "Starting Telegram MCP Server")
          /\ connected' = TRUE
          /\ starting' = starting + 1
          /\ srvRet' = SrvRet("start", NoValue, NoError, "awaiting")
  /\ UNCHANGED <<isRunning, dbOpen, wasStarted, stopping>>
  /\ SrvCallOthers

\* start(), from its await: isRunning = true, then the second log line
StartResume ==
  /\ starting > 0
  /\ starting' = starting - 1
  /\ isRunning' = TRUE
  /\ IF LogThrows("info")
     THEN /\ srvOps' = <<StoreOp("Telegram MCP Server started successfully")>>
          /\ srvRet' = SrvRet("startResume", NoValue, DbClosedError, NoValue)
          /\ UNCHANGED wasStarted
     ELSE /\ srvOps' = Logged("info", "Telegram MCP Server started successfully")
          /\ srvRet' = SrvRet("startResume", NoValue, NoError, "done")
          /\ wasStarted' = TRUE
  /\ UNCHANGED <<dbOpen, connected, stopping>>
  /\ SrvCallOthers

\* stop(), to its await: the isRunning check, the log line and the call of
\* server.close(), which closes the transport the Server holds and runs the
\* close handler before it returns its promise
Stop ==
  /\ stopping < MaxStops
  /\ IF ~isRunning
     THEN /\ srvOps' = <<>>
          /\ srvRet' = SrvRet("stop", NoValue, NoError, "done")
          /\ UNCHANGED <<isRunning, connected, stopping>>
     ELSE IF LogThrows("info")
     THEN /\ srvOps' = <<StoreOp("Stopping Telegram MCP Server")>>
          /\ srvRet' = SrvRet("stop", NoValue, DbClosedError, NoValue)
          /\ UNCHANGED <<isRunning, connected, stopping>>
     ELSE /\ srvOps' = Logged("info", "Stopping Telegram MCP Server")
                         \o (IF connected THEN Logged("info", "Server closed") ELSE <<>>)
          /\ isRunning' = (isRunning /\ ~connected)
          /\ connected' = FALSE
          /\ stopping' = stopping + 1
          /\ srvRet' = SrvRet("stop", NoValue, NoError, "awaiting")
  /\ UNCHANGED <<dbOpen, wasStarted, starting>>
  /\ SrvCallOthers

\* stop(), from its await: closeDatabase(getDatabase(path)) closes the handle
\* dbInstance holds, then isRunning = false
StopResume ==
  /\ stopping > 0
  /\ stopping' = stopping - 1
  /\ dbOpen' = FALSE
  /\ isRunning' = FALSE
  /\ srvOps' = <<>>
  /\ srvRet' = SrvRet("stopResume", NoValue, NoError, "done")
  /\ UNCHANGED <<wasStarted, connected, starting>>
  /\ SrvCallOthers

\* server.onclose, run when the connected transport closes on its own
OnClose ==
  /\ connected
  /\ connected' = FALSE
  /\ IF LogThrows("info")
     THEN /\ srvOps' = <<StoreOp("Server closed")>>
          /\ srvRet' = SrvRet("onclose", NoValue, DbClosedError, NoValue)
          /\ UNCHANGED isRunning
     ELSE /\ srvOps' = Logged("info", "Server closed")
          /\ isRunning' = FALSE
          /\ srvRet' = SrvRet("onclose", NoValue, NoError, "done")
  /\ UNCHANGED <<dbOpen, wasStarted, starting, stopping>>
  /\ SrvCallOthers

\* server.onerror, run when the connected transport reports an error
OnError ==
  /\ connected
  /\ IF LogThrows("error")
     THEN /\ srvOps' = <<StoreOp("Server error")>>
          /\ srvRet' = SrvRet("onerror", NoValue, DbClosedError, NoValue)
     ELSE /\ srvOps' = Logged("error", "Server error")
          /\ srvRet' = SrvRet("onerror", NoValue, NoError, "done")
  /\ UNCHANGED <<isRunning, dbOpen, wasStarted, connected, starting, stopping>>
  /\ SrvCallOthers

\* closeDatabase(db), exported: a caller closes the handle the server holds
CloseDatabase ==
  /\ dbOpen' = FALSE
  /\ srvOps' = <<>>
  /\ srvRet' = SrvRet("closeDatabase", NoValue, NoError, "done")
  /\ UNCHANGED <<isRunning, wasStarted, connected, starting, stopping>>
  /\ SrvCallOthers

\* resetDatabaseInstance(), exported: closes the handle dbInstance holds, which
\* is the one the server's stores were constructed on, and forgets it
ResetDatabaseInstance ==
  /\ dbOpen' = FALSE
  /\ srvOps' = <<>>
  /\ srvRet' = SrvRet("resetDatabaseInstance", NoValue, NoError, "done")
  /\ UNCHANGED <<isRunning, wasStarted, connected, starting, stopping>>
  /\ SrvCallOthers

GetRunningStatus ==
  /\ srvOps' = <<>>
  /\ srvRet' = SrvRet("getRunningStatus", NoValue, NoError, isRunning)
  /\ UNCHANGED <<isRunning, dbOpen, wasStarted, connected, starting, stopping>>
  /\ SrvCallOthers

FreeSlots == {i \in 1 .. MaxCalls : pending[i] = NoValue}

\* the tool-call handler up to its first await, or to its end when it has none;
\* requests arrive over the connected transport
CallTool(req) ==
  /\ connected
  /\ AwaitsService(req) /\ ~MissingArgs(req) => FreeSlots # {}
  /\ IF LogThrows("info")
     THEN /\ srvOps' = <<StoreOp("Tool call requested")>>
          /\ srvRet' = SrvRet("callTool", req, DbClosedError, NoValue)
          /\ UNCHANGED pending
     ELSE IF req.name \notin KnownTools
     THEN /\ srvOps' = Logged("info", "Tool call requested")
          /\ srvRet' = SrvRet("callTool", req, NoError, "error")
          /\ UNCHANGED pending
     ELSE IF MissingArgs(req)
     THEN /\ srvOps' = Logged("info", "Tool call requested") \o <<StoreOp("logToolError")>>
          /\ srvRet' = SrvRet("callTool", req,
                               IF dbOpen THEN NoError ELSE DbClosedError,
                               IF dbOpen THEN "error" ELSE NoValue)
          /\ UNCHANGED pending
     ELSE IF AwaitsService(req)
     THEN /\ srvOps' = Logged("info", "Tool call requested")
          /\ srvRet' = SrvRet("callTool", req, NoError, "awaiting")
          /\ pending' = [pending EXCEPT
                           ![CHOOSE i \in FreeSlots : \A j \in FreeSlots : i <= j] = req]
     ELSE /\ srvOps' = Logged("info", "Tool call requested") \o Logged("info", "logTool")
          /\ srvRet' = SrvRet("callTool", req, NoError, "content")
          /\ UNCHANGED pending
  /\ UNCHANGED <<isRunning, dbOpen, wasStarted, connected, starting, stopping, mockVars>>
  /\ SrvOthers

\* the handler from the point its await settles: the provider has run, the
\* outcome is logged with logTool or, from the catch block, logToolError
ToolResume(i) ==
  /\ pending[i] # NoValue
  /\ ServiceCall(pending[i])
  /\ pending' = [pending EXCEPT ![i] = NoValue]
  /\ IF mockRet'.raised = NoError
     THEN IF LogThrows("info")
          THEN /\ srvOps' = <<StoreOp("logTool"), StoreOp("logToolError")>>
               /\ srvRet' = SrvRet("toolResume", pending[i], DbClosedError, NoValue)
          ELSE /\ srvOps' = Logged("info", "logTool")
               /\ srvRet' = SrvRet("toolResume", pending[i], NoError, "content")
     ELSE /\ srvOps' = <<StoreOp("logToolError")>>
          /\ srvRet' = SrvRet("toolResume", pending[i],
                               IF dbOpen THEN NoError ELSE DbClosedError,
                               IF dbOpen THEN "error" ELSE NoValue)
  /\ UNCHANGED <<isRunning, dbOpen, wasStarted, connected, starting, stopping>>
  /\ SrvOthers

\* no server has been constructed
NoServer ==
  /\ isRunning = FALSE
  /\ dbOpen = TRUE
  /\ pending = <<>>
  /\ srvOps = <<>>
  /\ srvRet = SrvRet("none", NoValue, NoError, NoValue)
  /\ wasStarted = FALSE
  /\ connected = FALSE
  /\ starting = 0
  /\ stopping = 0

\* new TelegramMCPServer(config): getDatabase opens the handle
SrvNew ==
  /\ isRunning = FALSE
  /\ dbOpen = TRUE
  /\ pending = [i \in 1 .. MaxCalls |-> NoValue]
  /\ srvOps = <<>>
  /\ srvRet = SrvRet("new", NoValue, NoError, NoValue)
  /\ wasStarted = FALSE
  /\ connected = FALSE
  /\ starting = 0
  /\ stopping = 0

----------------------------------------------------------------------------
(* Specification of the cache store *)

LogIdle ==
  /\ logs = {}
  /\ nextId = 0
  /\ logRet = LogRet("new", "", 0, 0)
  /\ trimPc = "idle"
  /\ trimMax = 0
  /\ idsToKeep = {}
  /\ idsToDelete = <<>>
  /\ trimI = 0
  /\ trimDeleted = 0
  /\ trimSeen = {}
  /\ queryRet = QueryRet("none", NoOptions, <<>>, 0)

\* new AccountManager(db) on an empty table
AcctNew ==
  /\ accounts = {}
  /\ acctNextId = 0
  /\ acctRet = AcctRet("new", 0, NoValue, FALSE)
  /\ acctRead = AcctRet("none", 0, NoValue, FALSE)

CacheNew ==
  /\ cache = {}
  /\ hitCount = 0
  /\ missCount = 0
  /\ ret = CacheRet("new", <<>>, JsUndefined, 0, FALSE, NoStats)
  /\ microtasks = <<>>

Init ==
  /\ clock = 1
  /\ CacheNew
  /\ LogIdle
  /\ AcctNew
  /\ NoServer
  /\ NoProvider
  /\ minLevel = "info"

Next ==
  \/ \E k \in Keys, v \in Values, t \in TtlArgs : Set(k, v, t)
  \/ \E k \in Keys : Get(k)
  \/ \E k \in Keys : Delete(k)
  \/ Clear
  \/ \E p \in Prefixes : ClearByPrefix(p)
  \/ Stats
  \/ Cleanup
  \/ ResetStats
  \/ CacheTick

Spec == Init /\ [][Next]_vars

----------------------------------------------------------------------------
(* Specification of the cache store holding values of every JSON type *)

\* the key under which they are stored
JsonKeys == {<<"a", "b">>}

JsonNext ==
  \/ \E k \in JsonKeys, v \in JsonValues, t \in TtlArgs : Set(k, v, t)
  \/ \E k \in JsonKeys : Get(k)
  \/ \E k \in JsonKeys : Delete(k)
  \/ CacheTick

JsonSpec == Init /\ [][JsonNext]_vars

----------------------------------------------------------------------------
(* Specification of the raw-statement log store *)

\* new Logger(db, minLevel)
LogInit ==
  /\ clock = 1
  /\ CacheNew
  /\ LogIdle
  /\ AcctNew
  /\ NoServer
  /\ NoProvider
  /\ minLevel \in Levels

LogNext ==
  \/ \E l \in Levels, c \in Contexts : Log(l, c)
  \/ \E m \in 0 .. MaxTrim : Trim(m)
  \/ LogClear
  \/ LogTick

LogSpec == LogInit /\ [][LogNext]_vars


----------------------------------------------------------------------------
(* Specification of the raw-statement log store with its read operations *)

\* the duration and context arguments of the logTool calls
ToolCalls == {<<0, NoContext>>, <<100, SessionContext>>}

\* no returned value is held: the caller of the last query or count has moved on
NoneReturned == queryRet.op = "none"

\* the caller lets go of the value query or count returned
QueryDone ==
  /\ ~NoneReturned
  /\ queryRet' = QueryRet("none", NoOptions, <<>>, 0)
  /\ UNCHANGED <<clock, logs, minLevel, nextId, logRet, cacheVars, acctVars, trimVars,
               serviceVars>>

\* the calls are synchronous: each starts after the one before it has returned
QueryNext ==
  \/ /\ NoneReturned
     /\ nextId < MaxQueryLogs
     /\ \E l \in {"debug", "info"} : Log(l, NoContext)
  \/ /\ NoneReturned
     /\ nextId < MaxQueryLogs
     /\ \E a \in ToolCalls :
          LogTool("chat", "list", JsObject(<<>>), JsString(<<"o", "k">>), a[1], a[2])
  \/ /\ NoneReturned
     /\ nextId < MaxQueryLogs
     /\ \E e \in ErrorMessages :
          LogToolError("chat", "send", JsObject(<<>>), e, 50, NoContext)
  \/ NoneReturned /\ \E o \in QueryOptions : Query(o)
  \/ NoneReturned /\ \E o \in CountOptions : Count(o)
  \/ QueryDone
  \/ NoneReturned /\ \E m \in 0 .. MaxTrim : Trim(m)
  \/ NoneReturned /\ LogClear
  \/ NoneReturned /\ LogTick

QuerySpec == Init /\ [][QueryNext]_vars

----------------------------------------------------------------------------
(* Specification of the account registry *)

\* the calls are synchronous: each starts after the one before it has returned
AcctNext ==
  \/ AcctNoneReturned /\ \E p \in Phones : CreateAccount(p)
  \/ AcctNoneReturned /\ \E id \in AcctIds, st \in AccountStatuses :
                            UpdateAccountStatus(id, st)
  \/ AcctNoneReturned /\ \E id \in AcctIds, a \in ActivateArgs :
                            ActivateSession(id, a[1], a[2])
  \/ AcctNoneReturned /\ \E id \in AcctIds : DeactivateSession(id)
  \/ AcctNoneReturned /\ \E id \in AcctIds : DeleteAccount(id)
  \/ AcctNoneReturned /\ \E id \in AcctIds : TouchSession(id)
  \/ AcctNoneReturned /\ \E id \in AcctIds : GetAccount(id)
  \/ AcctNoneReturned /\ \E p \in Phones : GetAccountByPhone(p)
  \/ AcctNoneReturned /\ GetAllAccounts
  \/ AcctNoneReturned /\ GetActiveAccounts
  \/ AcctNoneReturned /\ \E id \in AcctIds : GetSession(id)
  \/ AcctNoneReturned /\ GetActiveSession
  \/ AcctNoneReturned /\ AcctCount
  \/ AcctReadDone
  \/ AcctNoneReturned /\ AcctTick

AcctSpec == Init /\ [][AcctNext]_vars

\* the raw-statement registry: the same synchronous calls
RawAcctNext ==
  \/ AcctNoneReturned /\ \E p \in Phones : RawCreateAccount(p)
  \/ AcctNoneReturned /\ \E id \in AcctIds, st \in AccountStatuses :
                            RawUpdateAccountStatus(id, st)
  \/ AcctNoneReturned /\ \E id \in AcctIds, a \in ActivateArgs :
                            RawActivateSession(id, a[1], a[2])
  \/ AcctNoneReturned /\ \E id \in AcctIds : RawDeactivateSession(id)
  \/ AcctNoneReturned /\ \E id \in AcctIds : RawDeleteAccount(id)
  \/ AcctNoneReturned /\ \E id \in AcctIds : RawTouchSession(id)
  \/ AcctNoneReturned /\ \E id \in AcctIds : RawGetAccount(id)
  \/ AcctNoneReturned /\ \E p \in Phones : RawGetAccountByPhone(p)
  \/ AcctNoneReturned /\ RawGetAllAccounts
  \/ AcctNoneReturned /\ RawGetActiveAccounts
  \/ AcctNoneReturned /\ \E id \in AcctIds : RawGetSession(id)
  \/ AcctNoneReturned /\ RawGetActiveSession
  \/ AcctNoneReturned /\ RawCount
  \/ AcctReadDone
  \/ AcctNoneReturned /\ AcctTick

RawAcctSpec == Init /\ [][RawAcctNext]_vars

----------------------------------------------------------------------------
(* The three stores on one handle: CacheManager, Logger and AccountManager are
   constructed over the same database, and their synchronous calls follow one
   another in any order. The clock stands still: no store reads a time another
   store wrote. *)

MaxStoreGets == 1
MaxStoreLogs == 1
MaxStoreAccounts == 1

\* the cache key, value and ttl arguments used next to the other stores
StoreKeys == {<<"a", "b">>}
StoreValues == {JsString(<<"x">>)}
\* no ttl, and a ttl that has already passed when the entry is written
StoreTtls == {Omitted, -1}
StorePhones == {"+1111111111"}

\* a log context naming an account: sessionId is the account's id as text
AccountContext(id) == [NoContext EXCEPT !.sessionId = ToString(id)]

\* the id callers pass: the one createAccount handed out last (0: none yet)
StoreIds == {acctNextId}

\* no read of the Logger or of the AccountManager is waiting to be let go
StoresIdle == NoneReturned /\ AcctNoneReturned

\* one call on the CacheManager
CacheStoreCall ==
  \/ \E k \in StoreKeys, v \in StoreValues, t \in StoreTtls : Set(k, v, t)
  \/ hitCount + missCount < MaxStoreGets /\ \E k \in StoreKeys : Get(k)
  \/ \E k \in StoreKeys : Delete(k)
  \/ Clear
  \/ ClearByPrefix(<<"a">>)
  \/ Stats
  \/ Cleanup
  \/ ResetStats

\* one call on the Logger
LogStoreCall ==
  \/ nextId < MaxStoreLogs /\ \E id \in StoreIds :
                                Log("error", AccountContext(id))
  \/ Query(NoOptions)
  \/ Count(NoOptions)
  \/ \E m \in 0 .. MaxStoreLogs : Trim(m)
  \/ LogClear

\* one call on the AccountManager
AccountStoreCall ==
  \/ acctNextId < MaxStoreAccounts /\ \E p \in StorePhones : CreateAccount(p)
  \/ \E id \in StoreIds : UpdateAccountStatus(id, "active")
  \/ \E id \in StoreIds : ActivateSession(id, "u1", "bob")
  \/ \E id \in StoreIds : DeactivateSession(id)
  \/ \E id \in StoreIds : DeleteAccount(id)
  \/ \E id \in StoreIds : TouchSession(id)
  \/ \E id \in StoreIds : GetAccount(id)
  \/ \E p \in StorePhones : GetAccountByPhone(p)
  \/ GetAllAccounts
  \/ GetActiveAccounts
  \/ \E id \in StoreIds : GetSession(id)
  \/ GetActiveSession
  \/ AcctCount

StoresNext ==
  \/ StoresIdle /\ CacheStoreCall
  \/ StoresIdle /\ LogStoreCall
  \/ StoresIdle /\ AccountStoreCall
  \/ QueryDone
  \/ AcctReadDone

StoresSpec == Init /\ [][StoresNext]_vars

----------------------------------------------------------------------------
(* CacheManager (ORM-mediated): every method but resetStats is async. A call
   runs to its first await at once; what follows an await is a job on the
   microtask queue, and jobs run in queue order, each queueing its successor.
   `await <query>.get()` and `await <query>.run()` run the statement in the call
   and queue the rest of the method. `await <insert builder>` (set) queues the
   statement itself; the builder's then() settles the await two jobs later.
   A method that returns settles its promise, and the caller sees the value one
   job after that. Date.now() is read where the code reads it. *)

MaxTasks == 2
MaxOrmGets == 2

OrmKeys == {<<"a", "b">>, <<"c", "d">>}
OrmValues == {JsString(<<"x">>)}
OrmTtls == {Omitted, 1}
OrmPrefixes == {<<"a">>}

\* a job: what it does next, for which key, on which rows, and the outcome the
\* call it belongs to hands to its caller
Microtask(op, key, rows, out) == [op |-> op, key |-> key, rows |-> rows, out |-> out]

\* the calls in flight
OrmCalls(call) == {i \in 1 .. Len(microtasks) : microtasks[i].out.op = call}

\* a call queues its first job
OrmQueue(task) ==
  /\ Len(microtasks) < MaxTasks
  /\ microtasks' = Append(microtasks, task)

\* the job at the head of the queue runs and queues its successor
OrmRuns(op) == microtasks # <<>> /\ Head(microtasks).op = op

OrmThen(op, out) ==
  microtasks' = Append(Tail(microtasks),
                       [Head(microtasks) EXCEPT !.op = op, !.out = out])

OrmOut == Head(microtasks).out

\* set, to its await: now and expiresAt are computed in the call
OrmSetCall(key, value, ttlMs) ==
  /\ OrmQueue(Microtask("set", key,
                        {[key |-> key, value |-> JsonStringify(value),
                          expiresAt |-> ExpiresAt(clock, ttlMs),
                          createdAt |-> clock]},
                        CacheRet("set", key, JsUndefined, 0, FALSE, NoStats)))
  /\ UNCHANGED <<clock, cacheVars, logVars, acctVars, srvVars, mockVars>>

\* set: the builder's then() runs the upsert
OrmSetRun ==
  /\ OrmRuns("set")
  /\ \E row \in Head(microtasks).rows : cache' = InsertOrReplace(cache, row)
  /\ OrmThen("settle", OrmOut)
  /\ UNCHANGED <<clock, hitCount, missCount, ret, logVars, acctVars, srvVars, mockVars>>

\* set: the promise of the builder's execute() settles the awaited one
OrmSettle ==
  /\ OrmRuns("settle")
  /\ OrmThen("return", OrmOut)
  /\ UNCHANGED <<clock, cacheVars, logVars, acctVars, srvVars, mockVars>>

\* the rest of a method that only returns: set, delete, clear, clearByPrefix,
\* cleanup
OrmReturn ==
  /\ OrmRuns("return")
  /\ OrmThen("resolve", OrmOut)
  /\ UNCHANGED <<clock, cacheVars, logVars, acctVars, srvVars, mockVars>>

\* the caller of a method is handed its outcome
OrmResolve ==
  /\ OrmRuns("resolve")
  /\ ret' = OrmOut
  /\ microtasks' = Tail(microtasks)
  /\ UNCHANGED <<clock, cache, hitCount, missCount, logVars, acctVars, srvVars, mockVars>>

\* get, to its await: result is the row the SELECT finds now
OrmGetCall(key) ==
  /\ hitCount + missCount + Cardinality(OrmCalls("get")) < MaxOrmGets
  /\ OrmQueue(Microtask("get", key, RowsOf(cache, key),
                        CacheRet("get", key, JsNull, 0, FALSE, NoStats)))
  /\ UNCHANGED <<clock, cacheVars, logVars, acctVars, srvVars, mockVars>>

\* get, from its await: a missing result is a miss, a live one a hit; an expired
\* one (by the time now) has get call delete(key), whose DELETE runs at once
OrmGetRun ==
  /\ OrmRuns("get")
  /\ LET key == Head(microtasks).key
         result == Head(microtasks).rows
     IN IF result = {}
        THEN /\ missCount' = missCount + 1
             /\ OrmThen("resolve", OrmOut)
             /\ UNCHANGED <<cache, hitCount>>
        ELSE \E row \in result :
               IF IsExpired(row, clock)
               THEN /\ cache' = DeleteKey(cache, key)
                    /\ OrmThen("deleteReturn", OrmOut)
                    /\ UNCHANGED <<hitCount, missCount>>
               ELSE /\ hitCount' = hitCount + 1
                    /\ OrmThen("resolve", [OrmOut EXCEPT !.val = JsonParse(row.value)])
                    /\ UNCHANGED <<cache, missCount>>
  /\ UNCHANGED <<clock, ret, logVars, acctVars, srvVars, mockVars>>

\* get: the delete it called returns, which settles the promise get awaits
OrmDeleteReturn ==
  /\ OrmRuns("deleteReturn")
  /\ OrmThen("getMiss", OrmOut)
  /\ UNCHANGED <<clock, cacheVars, logVars, acctVars, srvVars, mockVars>>

\* get, from its await of delete: missCount++ and return null
OrmGetMiss ==
  /\ OrmRuns("getMiss")
  /\ missCount' = missCount + 1
  /\ OrmThen("resolve", OrmOut)
  /\ UNCHANGED <<clock, cache, hitCount, ret, logVars, acctVars, srvVars, mockVars>>

\* delete, to its await: the DELETE runs in the call
OrmDeleteCall(key) ==
  /\ cache' = DeleteKey(cache, key)
  /\ OrmQueue(Microtask("return", key, {},
                        CacheRet("delete", key, JsUndefined, 0, cache' # cache, NoStats)))
  /\ UNCHANGED <<clock, hitCount, missCount, ret, logVars, acctVars, srvVars, mockVars>>

\* clear, to its await
OrmClearCall ==
  /\ cache' = {}
  /\ OrmQueue(Microtask("return", <<>>, {},
                        CacheRet("clear", <<>>, JsUndefined, 0, FALSE, NoStats)))
  /\ UNCHANGED <<clock, hitCount, missCount, ret, logVars, acctVars, srvVars, mockVars>>

\* clearByPrefix, to its await: delete ... where like(key, `${prefix}%`)
OrmClearByPrefixCall(prefix) ==
  /\ cache' = {r \in cache : ~KeyLikePrefix(r.key, prefix)}
  /\ OrmQueue(Microtask("return", prefix, {},
                        CacheRet("clearByPrefix", prefix, JsUndefined, 0, FALSE, NoStats)))
  /\ UNCHANGED <<clock, hitCount, missCount, ret, logVars, acctVars, srvVars, mockVars>>

\* cleanup, to its await: delete ... where lt(expiresAt, now)
OrmCleanupCall ==
  /\ cache' = cache \ ExpiredRows(cache, clock)
  /\ OrmQueue(Microtask("return", <<>>, {},
                        CacheRet("cleanup", <<>>, JsUndefined,
                                 Cardinality(cache) - Cardinality(cache'), FALSE,
                                 NoStats)))
  /\ UNCHANGED <<clock, hitCount, missCount, ret, logVars, acctVars, srvVars, mockVars>>

\* stats, to its first await: now is read and the rows are counted; out.num
\* holds now
OrmStatsCall ==
  /\ OrmQueue(Microtask("statsExpired", <<>>, {},
                        CacheRet("stats", <<>>, JsUndefined, clock, FALSE,
                                 [NoStats EXCEPT !.totalEntries = Cardinality(cache)])))
  /\ UNCHANGED <<clock, cacheVars, logVars, acctVars, srvVars, mockVars>>

\* stats, from its first await: count where lt(expiresAt, now)
OrmStatsExpired ==
  /\ OrmRuns("statsExpired")
  /\ OrmThen("statsSize",
             [OrmOut EXCEPT !.st.expiredEntries =
                              Cardinality(ExpiredRows(cache, OrmOut.num))])
  /\ UNCHANGED <<clock, cacheVars, logVars, acctVars, srvVars, mockVars>>

\* stats, from its second await: sum(length(value))
OrmStatsSize ==
  /\ OrmRuns("statsSize")
  /\ OrmThen("statsReturn", [OrmOut EXCEPT !.st.size = SumLength(cache)])
  /\ UNCHANGED <<clock, cacheVars, logVars, acctVars, srvVars, mockVars>>

\* stats, from its third await: the counters are read and the record returned
OrmStatsReturn ==
  /\ OrmRuns("statsReturn")
  /\ OrmThen("resolve", [OrmOut EXCEPT !.num = 0,
                                       !.st.hitCount = hitCount,
                                       !.st.missCount = missCount])
  /\ UNCHANGED <<clock, cacheVars, logVars, acctVars, srvVars, mockVars>>

\* resetStats is synchronous
OrmResetStats ==
  /\ hitCount' = 0
  /\ missCount' = 0
  /\ ret' = CacheRet("resetStats", <<>>, JsUndefined, 0, FALSE, NoStats)
  /\ UNCHANGED <<clock, cache, logVars, acctVars, serviceVars>>

\* the wall clock moves on, also between a call and its continuation
OrmCacheTick ==
  /\ clock < MaxClock
  /\ clock' = clock + 1
  /\ UNCHANGED <<cacheVars, logVars, acctVars, serviceVars>>

OrmCacheNext ==
  \/ \E k \in OrmKeys, v \in OrmValues, t \in OrmTtls : OrmSetCall(k, v, t)
  \/ OrmSetRun
  \/ OrmSettle
  \/ OrmReturn
  \/ OrmResolve
  \/ \E k \in OrmKeys : OrmGetCall(k)
  \/ OrmGetRun
  \/ OrmDeleteReturn
  \/ OrmGetMiss
  \/ \E k \in OrmKeys : OrmDeleteCall(k)
  \/ OrmClearCall
  \/ \E q \in OrmPrefixes : OrmClearByPrefixCall(q)
  \/ OrmCleanupCall
  \/ OrmStatsCall
  \/ OrmStatsExpired
  \/ OrmStatsSize
  \/ OrmStatsReturn
  \/ OrmResetStats
  \/ OrmCacheTick

OrmCacheSpec == Init /\ [][OrmCacheNext]_vars

----------------------------------------------------------------------------
(* Specification of the mock provider: calls run one after the other *)

MockNext ==
  \/ MockNoneReturned /\ \E v \in BOOLEAN : SetSimulateError(v) /\ MockOthers
  \/ MockNoneReturned /\ \E p \in LoginPhones : Login(p) /\ MockOthers
  \/ MockNoneReturned /\ Logout /\ MockOthers
  \/ MockNoneReturned /\ IsAuthenticated /\ MockOthers
  \/ MockNoneReturned /\ GetCurrentUser /\ MockOthers
  \/ MockNoneReturned /\ ListChats /\ MockOthers
  \/ MockNoneReturned /\ \E c \in ChatArgs, n \in Limits : GetMessages(c, n) /\ MockOthers
  \/ MockNoneReturned /\ \E c \in ChatArgs, t \in Texts : SendMessage(c, t) /\ MockOthers
  \/ MockNoneReturned /\ Reset /\ MockOthers
  \/ MockDone
  \/ MockNoneReturned /\ MockTick

\* a provider on its own, as the provider tests construct it
MockInit ==
  /\ clock = 1
  /\ CacheNew
  /\ LogIdle
  /\ AcctNew
  /\ minLevel = "info"
  /\ NoServer
  /\ MockNew

MockSpec == MockInit /\ [][MockNext]_vars

----------------------------------------------------------------------------
(* Specification of the server: its callers, the transport and the timers of
   pending tool calls take steps in any order; login and logout reach the
   provider through getTelegramService() *)

ServerNext ==
  \/ Start
  \/ StartResume
  \/ Stop
  \/ StopResume
  \/ OnClose
  \/ OnError
  \/ CloseDatabase
  \/ ResetDatabaseInstance
  \/ GetRunningStatus
  \/ \E req \in ToolRequests : CallTool(req)
  \/ \E i \in 1 .. MaxCalls : ToolResume(i)
  \/ \E p \in LoginPhones : Login(p) /\ MockOthers
  \/ Logout /\ MockOthers

\* the server constructs its stores on one handle, and its own provider
ServerInit ==
  /\ clock = 1
  /\ CacheNew
  /\ LogIdle
  /\ AcctNew
  /\ minLevel = "info"
  /\ SrvNew
  /\ MockNew

ServerSpec == ServerInit /\ [][ServerNext]_vars

----------------------------------------------------------------------------
(* The ORM-mediated Logger: log is synchronous, trim is async and gives way to *)
(* other callers at each await                                                *)

\* for (let i = 0; i < idsToDelete.length; i += 100)
BatchSize == 100

\* the orders in which a scan can return the rows with these ids: `select id
\* from logs` walks the index of the primary key, the uuidv4() text, and the
\* order of that text among rows is any order
Orderings(ids) ==
  {q \in [1 .. Cardinality(ids) -> ids] : \A i, j \in DOMAIN q : q[i] = q[j] => i = j}

SeqRange(q) == {q[i] : i \in 1 .. Len(q)}

\* Logger.log (ORM): this.db.insert(logsTable).values(entry).run()
OrmLog(level, ctx) ==
  /\ IF IsFiltered(level, minLevel)
     THEN UNCHANGED <<logs, nextId, serviceVars>>
     ELSE /\ nextId < MaxLogs
          /\ nextId' = nextId + 1
          /\ logs' = logs \cup {OrmLogRow(nextId + 1, clock, level, ctx)}
  /\ logRet' = LogRet("log", level, 0, 0)
  /\ UNCHANGED <<clock, minLevel, cacheVars, queryRet, acctVars, trimVars, serviceVars>>

\* trim, to its first await: rowsToKeep = select id ... orderBy(desc(timestamp)).limit(n)
OrmTrimSelectKeep(maxEntries) ==
  /\ trimPc = "idle"
  /\ \E K \in KeepSets(logs, maxEntries) : idsToKeep' = IdsOf(K)
  /\ trimMax' = maxEntries
  /\ trimSeen' = IdsOf(logs)
  /\ trimPc' = "keep"
  /\ UNCHANGED <<clock, logs, minLevel, nextId, logRet, cacheVars, queryRet, acctVars,
                 idsToDelete, trimI, trimDeleted, serviceVars>>

\* trim, rowsToKeep.length === 0: delete every row
OrmTrimDeleteAll ==
  /\ trimPc = "keep"
  /\ idsToKeep = {}
  /\ logs' = {}
  /\ trimDeleted' = Cardinality(logs)
  /\ trimPc' = "return"
  /\ UNCHANGED <<clock, minLevel, nextId, logRet, cacheVars, queryRet, acctVars,
                 trimMax, idsToKeep, idsToDelete, trimI, trimSeen,
               serviceVars>>

\* trim: allRows = select id from logs; idsToDelete = those not in idsToKeep;
\* return 0 when there are none
OrmTrimSelectAll ==
  /\ trimPc = "keep"
  /\ idsToKeep # {}
  /\ idsToDelete' \in Orderings(IdsOf(logs) \ idsToKeep)
  /\ trimI' = 0
  /\ trimDeleted' = 0
  /\ trimPc' = IF idsToDelete' = <<>> THEN "return" ELSE "delete"
  /\ UNCHANGED <<clock, logs, minLevel, nextId, logRet, cacheVars, queryRet, acctVars,
                 trimMax, idsToKeep, trimSeen, serviceVars>>

\* trim: one pass of the batch loop, delete ... where inArray(id, batch)
OrmTrimDeleteBatch ==
  /\ trimPc = "delete"
  /\ trimI < Len(idsToDelete)
  /\ LET batch == SubSeq(idsToDelete, trimI + 1,
                         Min(trimI + BatchSize, Len(idsToDelete)))
     IN /\ logs' = {r \in logs : r.id \notin SeqRange(batch)}
        /\ trimDeleted' = trimDeleted + (Cardinality(logs) - Cardinality(logs'))
  /\ trimI' = trimI + BatchSize
  /\ trimPc' = IF trimI' < Len(idsToDelete) THEN "delete" ELSE "return"
  /\ UNCHANGED <<clock, minLevel, nextId, logRet, cacheVars, queryRet, acctVars,
                 trimMax, idsToKeep, idsToDelete, trimSeen, serviceVars>>

\* Logger.clear (ORM): delete(logsTable).run() runs in the call, and only the
\* return follows its await; callable while a trim is between two of its steps
OrmLogClear ==
  /\ logs' = {}
  /\ logRet' = LogRet("clear", "", 0, 0)
  /\ UNCHANGED <<clock, minLevel, nextId, cacheVars, queryRet, acctVars, trimVars,
               serviceVars>>

\* trim returns the number of rows it deleted
OrmTrimReturn ==
  /\ trimPc = "return"
  /\ logRet' = LogRet("trim", "", trimMax, trimDeleted)
  /\ trimPc' = "idle"
  /\ trimMax' = 0
  /\ idsToKeep' = {}
  /\ idsToDelete' = <<>>
  /\ trimI' = 0
  /\ trimDeleted' = 0
  /\ trimSeen' = {}
  /\ UNCHANGED <<clock, logs, minLevel, nextId, cacheVars, queryRet, acctVars, serviceVars>>

OrmLogNext ==
  \/ \E l \in Levels, c \in Contexts : OrmLog(l, c)
  \/ \E m \in 0 .. MaxTrim : OrmTrimSelectKeep(m)
  \/ OrmTrimDeleteAll
  \/ OrmTrimSelectAll
  \/ OrmTrimDeleteBatch
  \/ OrmTrimReturn
  \/ OrmLogClear
  \/ LogTick

OrmLogSpec == LogInit /\ [][OrmLogNext]_vars

----------------------------------------------------------------------------
(* Properties of the log store *)

\* C2: trim(maxEntries) on a store of N entries leaves exactly min(N, maxEntries)
\* entries, none of them older than a deleted one, deletes the others and returns
\* N - min(N, maxEntries); trim(0) deletes every entry and returns N.
C2_TrimKeepsNewest ==
  [][\A m \in 0 .. MaxTrim :
       Trim(m) =>
         LET N == Cardinality(logs)
         IN /\ logs' \subseteq logs
            /\ Cardinality(logs') = Min(N, m)
            /\ \A kept \in logs', gone \in logs \ logs' :
                 kept.timestamp >= gone.timestamp
            /\ logRet'.num = N - Min(N, m)
            /\ (m = 0 => logs' = {} /\ logRet'.num = N)]_vars

\* a trim(1) of three entries written at different times kept the newest
C2_Witness ==
  /\ logRet.op = "trim"
  /\ logRet.arg = 1
  /\ logRet.num = 2
  /\ \E r \in logs : logs = {r} /\ r.id = 3 /\ r.timestamp > 1

\* fewer than n other rows of table are at least as new as row d: d is one of the
\* n newest whatever the order among equal timestamps
AmongNewest(table, d, n) ==
  Cardinality({r \in table \ {d} : r.timestamp >= d.timestamp}) < n

\* C3 as claimed: trim is atomic with respect to log writes: a step of the
\* running trim never deletes an entry written after it computed its keep-set,
\* and it never deletes one of the maxEntries newest entries present.
C3_TrimAtomicAsClaimed ==
  [][(trimPc # "idle" /\ trimPc' # "idle" /\ trimVars' # trimVars) =>
       \A d \in logs \ logs' :
         /\ d.id \in trimSeen
         /\ ~AmongNewest(logs, d, trimMax)]_vars

\* C4: a log call at a level below minLevel writes nothing; at or above minLevel it
\* writes exactly one new entry, of that level; minLevel never changes.
C4_LevelGating ==
  [][/\ minLevel' = minLevel
     /\ \A l \in Levels, c \in Contexts :
          Log(l, c) =>
            IF LOG_LEVELS[l] >= LOG_LEVELS[minLevel]
            THEN /\ logs \subseteq logs'
                 /\ \E r \in logs' \ logs : logs' \ logs = {r} /\ r.level = l
                 /\ Cardinality(logs') = Cardinality(logs) + 1
            ELSE logs' = logs]_vars

\* a store with minLevel = warn holds the one warn entry and has just ignored an
\* info call
C4_Witness ==
  /\ minLevel = "warn"
  /\ logRet.op = "log"
  /\ logRet.level = "info"
  /\ \E r \in logs : logs = {r} /\ r.level = "warn"

\* C14: the log store is append-only: no operation changes a field of a written
\* entry, an entry leaves the store only through clear or trim, and log, logTool,
\* logToolError, query and count never remove or modify entries; every written
\* entry has an id distinct from every other entry's.
C14_AppendOnly ==
  /\ [](\A r1, r2 \in logs : r1.id = r2.id => r1 = r2)
  /\ [][/\ \A r \in logs :
             r \in logs' \/ (\E m \in 0 .. MaxTrim : Trim(m)) \/ LogClear
        /\ \A n \in logs' : (\E r \in logs : r.id = n.id) => n \in logs
        /\ \A n \in logs' \ logs : n.id > nextId
        /\ (\/ \E l \in Levels : Log(l, NoContext)
            \/ logRet'.op \in {"logTool", "logToolError"} /\ logRet' # logRet
            \/ queryRet'.op = "query" /\ Query(queryRet'.opts)
            \/ queryRet'.op = "count" /\ Count(queryRet'.opts))
             => logs \subseteq logs']_vars

\* count() finds both entries, the first written by log and the second, later, by
\* logToolError, after a query in between
C14_Witness ==
  /\ queryRet.op = "count"
  /\ queryRet.opts = NoOptions
  /\ queryRet.count = 2
  /\ logRet.op = "logToolError"
  /\ \E r1, r2 \in logs :
       /\ r1.id = 1 /\ r1.level = "info" /\ r1.tool = NullText
       /\ r2.id = 2 /\ r2.level = "error" /\ r2.timestamp > r1.timestamp

\* an entry satisfies every predicate whose option is given
SuppliedWhere(r, o) ==
  /\ o.level # UndefText => r.level = o.level
  /\ o.tool # UndefText => r.tool = o.tool
  /\ o.sessionId # UndefText => r.sessionId = o.sessionId
  /\ o.startDate # Omitted => r.timestamp >= o.startDate
  /\ o.endDate # Omitted => r.timestamp <= o.endDate

\* the limit and offset an options object stands for: an omitted limit means 100,
\* an omitted offset 0
SuppliedLimit(o) == IF o.limit = Omitted THEN DefaultLimit ELSE o.limit
SuppliedOffset(o) == IF o.offset = Omitted THEN 0 ELSE o.offset

\* the rows behind the entries a query returned, by id
EntryIds(entries) == [i \in 1 .. Len(entries) |-> entries[i].id]

\* C15 as claimed: query(options) returns exactly the entries that satisfy every
\* predicate whose option is given (level, tool, sessionId, timestamp >= startDate,
\* timestamp <= endDate), sorted by timestamp descending, then restricted to the
\* window of offset and limit; with no options, the (up to) 100 newest entries.
C15_QueryAsClaimed ==
  [][(queryRet'.op = "query" /\ Query(queryRet'.opts)) =>
       LET o == queryRet'.opts
       IN \E q \in OrderByTimestampDesc({r \in logs : SuppliedWhere(r, o)}) :
            EntryIds(queryRet'.entries) =
              EntryIds(LimitOffset(q, SuppliedLimit(o), SuppliedOffset(o)))]_vars

\* C16 as claimed: query({limit: L, offset: O}) returns exactly
\* min(L, max(0, M - O)) entries, M the number of entries matching the filters, for
\* every L >= 0 and O >= 0; an omitted limit means 100 and an omitted offset 0.
C16_PaginationAsClaimed ==
  [][(queryRet'.op = "query" /\ Query(queryRet'.opts)) =>
       LET o == queryRet'.opts
           M == Cardinality({r \in logs : QueryWhere(r, o)})
       IN Len(queryRet'.entries) =
            Min(SuppliedLimit(o), Max(0, M - SuppliedOffset(o)))]_vars

\* the options of a query without its pagination
FiltersOf(o) == [o EXCEPT !.limit = Omitted, !.offset = Omitted]

\* C17: count(options) is the number of stored entries satisfying the predicates
\* query(options) applies; it equals the length of query(options) whenever offset is
\* 0 and limit is at least the number of matching entries; count() is the total.
C17_CountMatchesQuery ==
  [][/\ (queryRet'.op = "count" /\ Count(queryRet'.opts)) =>
          /\ queryRet'.count =
               Cardinality({r \in logs : QueryWhere(r, queryRet'.opts)})
          /\ queryRet'.opts = NoOptions => queryRet'.count = Cardinality(logs)
     /\ (queryRet'.op = "query" /\ Query(queryRet'.opts)) =>
          LET o == queryRet'.opts
              counted == Cardinality({r \in logs : CountWhere(r, FiltersOf(o))})
          IN (o.offset \in {Omitted, 0} /\ (o.limit = Omitted \/ o.limit >= counted))
               => Len(queryRet'.entries) = counted]_vars

\* count({tool: 'chat'}) = 1 after two writes and a trim that deleted the older
\* entry
C17_Witness ==
  /\ queryRet.op = "count"
  /\ queryRet.opts = [NoOptions EXCEPT !.tool = "chat"]
  /\ queryRet.count = 1
  /\ logRet.op = "trim"
  /\ logRet.num = 1
  /\ \E r \in logs : logs = {r} /\ r.id = 2 /\ r.tool = "chat"

\* C18 as claimed: with minLevel admitting the level, logTool writes one info entry
\* and logToolError one error entry, and the entry read back through query carries
\* tool, action, arguments and duration equal to the values passed, for every
\* duration >= 0, plus result for logTool and error = error.message for
\* logToolError.
C18_ToolLogRoundTripAsClaimed ==
  [][/\ \A a \in ToolCalls :
          (LogTool("chat", "list", JsObject(<<>>), JsString(<<"o", "k">>), a[1], a[2])
             /\ ~IsFiltered("info", minLevel))
            => \E n \in logs' : logs' = logs \cup {n} /\ n \notin logs /\ n.level = "info"
     /\ \A e \in ErrorMessages :
          (LogToolError("chat", "send", JsObject(<<>>), e, 50, NoContext)
             /\ ~IsFiltered("error", minLevel))
            => \E n \in logs' : logs' = logs \cup {n} /\ n \notin logs /\ n.level = "error"
     /\ (/\ queryRet'.op = "query" /\ Query(NoOptions)
         /\ logRet.op \in {"logTool", "logToolError"}
         /\ \E r \in logs : r.id = nextId)
          => \E i \in 1 .. Len(queryRet'.entries) :
               LET entry == queryRet'.entries[i]
               IN /\ entry.id = nextId
                  /\ entry.tool = logRet.arg.tool
                  /\ entry.action = logRet.arg.action
                  /\ entry.arguments = logRet.arg.arguments
                  /\ entry.duration = logRet.arg.duration
                  /\ logRet.op = "logTool" => entry.result = logRet.arg.result
                  /\ logRet.op = "logToolError" => entry.error = logRet.arg.error]_vars

----------------------------------------------------------------------------
(* Properties of the cache store *)

\* the JavaScript value whose JSON text is stored in row r
StoredValue(r) == CHOOSE v \in Values \cup {JsNull} : JsonStringify(v) = r.value

\* prefix is a literal prefix of key
IsLiteralPrefix(prefix, key) ==
  Len(prefix) <= Len(key) /\ SubSeq(key, 1, Len(prefix)) = prefix

\* set(k, v, ttl) with ttl > 0 at time t stores v to expire at t + ttl
SetStoresTtl ==
  \A k \in Keys, v \in Values, t \in 1 .. MaxTtl :
    Set(k, v, t) =>
      \E r \in cache' :
        /\ RowsOf(cache', k) = {r}
        /\ r.value = JsonStringify(v)
        /\ r.createdAt = clock
        /\ r.expiresAt = clock + t

\* C1 as claimed: after set(k, v, ttl) at time t, get(k) at t' < t + ttl returns v
\* and get(k) at t' >= t + ttl returns absent and removes the row.
C1_TtlBoundaryAsClaimed ==
  [][/\ SetStoresTtl
     /\ \A k \in Keys : \A r \in RowsOf(cache, k) :
          (Get(k) /\ r.expiresAt # SqlNull) =>
            IF clock < r.expiresAt
            THEN ret'.val = StoredValue(r) /\ r \in cache'
            ELSE /\ ret'.val = JsNull
                 /\ RowsOf(cache', k) = {}
                 /\ Cardinality(cache') = Cardinality(cache) - 1]_vars

\* C1 amended: after set(k, v, ttl) at time t with ttl > 0, get(k) at t' <= t + ttl
\* returns v and keeps the row; get(k) at t' > t + ttl returns absent and removes
\* the row, so that it is no longer counted in totalEntries.
C1_TtlBoundary ==
  [][/\ SetStoresTtl
     /\ \A k \in Keys : \A r \in RowsOf(cache, k) :
          (Get(k) /\ r.expiresAt # SqlNull) =>
            IF clock <= r.expiresAt
            THEN ret'.val = StoredValue(r) /\ r \in cache'
            ELSE /\ ret'.val = JsNull
                 /\ RowsOf(cache', k) = {}
                 /\ Cardinality(cache') = Cardinality(cache) - 1]_vars

\* a get at exactly t + ttl has returned the stored value
C1_Witness ==
  /\ ret.op = "get"
  /\ \E r \in RowsOf(cache, ret.key) :
       /\ r.expiresAt = clock
       /\ r.createdAt < clock
       /\ ret.val = StoredValue(r)

\* C5: there is at most one stored entry per key; set on a key that has an entry
\* replaces its value and leaves totalEntries unchanged, and leaves the other keys'
\* entries alone; a following get returns the value last set.
C5_OneEntryPerKey ==
  /\ [](\A r1, r2 \in cache : r1.key = r2.key => r1 = r2)
  /\ [][/\ \A k \in Keys, v \in Values, t \in TtlArgs :
             Set(k, v, t) =>
               /\ Cardinality(RowsOf(cache', k)) = 1
               /\ \A r \in RowsOf(cache', k) : r.value = JsonStringify(v)
               /\ DeleteKey(cache', k) = DeleteKey(cache, k)
               /\ (RowsOf(cache, k) # {} => Cardinality(cache') = Cardinality(cache))
        /\ \A k \in Keys, v \in Values :
             (Get(k) /\ ret.op = "set" /\ ret.key = k
                /\ \E r \in RowsOf(cache, k) :
                     r.value = JsonStringify(v) /\ r.createdAt = clock)
               => ret'.val = v]_vars

\* a get that directly follows a set of the same key at the same instant, with the
\* other key stored too
C5_Witness ==
  /\ ret.op = "get"
  /\ ret.val \in Values
  /\ Cardinality(cache) = Cardinality(Keys)
  /\ \E r \in RowsOf(cache, ret.key) : r.createdAt = clock /\ clock > 1

\* C6 as claimed: clearByPrefix(prefix) removes exactly the entries whose key begins
\* with the literal string prefix and leaves every other entry unchanged.
C6_LiteralPrefixAsClaimed ==
  [][\A p \in Prefixes :
       ClearByPrefix(p) => cache' = {r \in cache : ~IsLiteralPrefix(p, r.key)}]_vars

\* C7 as claimed: set stores expiresAt = now + ttl whenever a ttl argument is
\* supplied, including 0, and no expiry only when the argument is omitted.
C7_TtlStoredAsClaimed ==
  [][\A k \in Keys, v \in Values, t \in TtlArgs :
       Set(k, v, t) =>
         \A r \in RowsOf(cache', k) :
           r.expiresAt = (IF t = Omitted THEN SqlNull ELSE clock + t)]_vars

\* C8: a get that returns a stored value adds one to hitCount and leaves missCount;
\* a get that returns absent (key missing or expired) adds one to missCount and
\* leaves hitCount; resetStats zeroes both; no other operation changes either;
\* both start at 0 and stats() reports them.
C8_HitMissCounters ==
  /\ hitCount = 0 /\ missCount = 0
  /\ [][/\ \A k \in Keys :
             Get(k) =>
               IF RowsOf(cache', k) # {}
               THEN hitCount' = hitCount + 1 /\ missCount' = missCount
               ELSE missCount' = missCount + 1 /\ hitCount' = hitCount
        /\ ResetStats => (hitCount' = 0 /\ missCount' = 0)
        /\ ((\A k \in Keys : ~Get(k)) /\ ~ResetStats) =>
             (hitCount' = hitCount /\ missCount' = missCount)
        /\ Stats => (ret'.st.hitCount = hitCount /\ ret'.st.missCount = missCount)]_vars

\* stats() after two hits and one miss, one of them the miss on an expired entry
C8_Witness ==
  /\ ret.op = "stats"
  /\ ret.st.hitCount = 2
  /\ ret.st.missCount = 1

\* C9: cleanup removes exactly the entries whose expiresAt is set and earlier than
\* now, returns how many it removed, leaves the others unchanged, and right after
\* it stats().expiredEntries is 0.
C9_Cleanup ==
  [][Cleanup =>
       /\ cache' = {r \in cache : ~(r.expiresAt # SqlNull /\ r.expiresAt < clock)}
       /\ ret'.num = Cardinality(cache \ cache')
       /\ Cardinality(ExpiredRows(cache', clock')) = 0]_vars

\* a cleanup that removed one entry and kept one that expires exactly now
C9_Witness ==
  /\ ret.op = "cleanup"
  /\ ret.num = 1
  /\ \E r \in cache : r.expiresAt = clock

\* row r has an expiry that has passed
Passed(r, now) == r.expiresAt # SqlNull /\ r.expiresAt < now

\* C10: an entry whose expiry has passed stays stored and counted by totalEntries
\* and expiredEntries until a get on its key, cleanup, delete of its key, clear, a
\* clearByPrefix that matches its key or a set on its key; stats() and get on other
\* keys never remove it, and get on its key returns absent.
C10_LazyAndProactive ==
  [][\A r \in cache :
       Passed(r, clock) =>
         /\ \/ /\ r \in cache'
               /\ r \in ExpiredRows(cache', clock')
            \/ Get(r.key)
            \/ Cleanup
            \/ Delete(r.key)
            \/ Clear
            \/ \E p \in Prefixes : ClearByPrefix(p) /\ KeyLikePrefix(r.key, p)
            \/ \E v \in Values, t \in TtlArgs : Set(r.key, v, t)
         /\ Stats =>
              /\ cache' = cache
              /\ ret'.st.totalEntries = Cardinality(cache)
              /\ ret'.st.expiredEntries =
                   Cardinality({x \in cache : Passed(x, clock)})
         /\ Get(r.key) => ret'.val = JsNull /\ r \notin cache']_vars

\* stats() counts an entry whose expiry passed, after a get on the other key
C10_Witness ==
  /\ ret.op = "stats"
  /\ ret.st.expiredEntries = 1
  /\ ret.st.totalEntries = 1
  /\ ret.st.missCount = 1

\* C11: an entry written by set(k, v) without a ttl stays stored, whatever the clock,
\* until a delete of its key, clear, a clearByPrefix that matches its key or another
\* set on its key; cleanup and get never remove it, and get on its key returns v.
C11_NoTtlPermanence ==
  [][\A r \in cache :
       r.expiresAt = SqlNull =>
         /\ \/ r \in cache'
            \/ Delete(r.key)
            \/ Clear
            \/ \E p \in Prefixes : ClearByPrefix(p) /\ KeyLikePrefix(r.key, p)
            \/ \E v \in Values, t \in TtlArgs : Set(r.key, v, t)
         /\ Cleanup => (r \in cache' /\ r \notin ExpiredRows(cache, clock))
         /\ Get(r.key) => (r \in cache' /\ ret'.val = StoredValue(r))]_vars

\* a get at the latest time returned the value set without ttl at the earliest time
C11_Witness ==
  /\ ret.op = "get"
  /\ clock = MaxClock
  /\ \E r \in RowsOf(cache, ret.key) :
       /\ r.expiresAt = SqlNull
       /\ r.createdAt = 1
       /\ ret.val = StoredValue(r)

\* C12 as claimed: a set on a key that has an entry replaces the entry's value,
\* expiry and createdAt by those of the new call: after set(k, v1, ttl), set(k, v2)
\* without ttl leaves k with no expiry (it never expires), and after set(k, v1),
\* set(k, v2, ttl) with any supplied ttl, 0 included, makes k expire ttl after the
\* second set (expiresAt = now + ttl); nothing of the old entry survives.
C12_SetReplacesExpiryAsClaimed ==
  [][\A k \in Keys, v \in Values, t \in TtlArgs :
       (Set(k, v, t) /\ RowsOf(cache, k) # {}) =>
         \E r \in cache' :
           /\ RowsOf(cache', k) = {r}
           /\ r.value = JsonStringify(v)
           /\ r.createdAt = clock
           /\ (t = Omitted => r.expiresAt = SqlNull /\ ~IsExpired(r, MaxClock + 1))
           /\ (t # Omitted => r.expiresAt = clock + t /\ IsExpired(r, clock + t + 1))]_vars

\* what get returns for a key that has no row
AbsentResult == JsNull

\* C13 as claimed: for every key k and value v of a JSON type, get(k) immediately
\* after set(k, v) returns a value equal to v and not the result get returns for a
\* missing key.
C13_RoundTripAsClaimed ==
  [][\A k \in JsonKeys, v \in JsonValues :
       (Get(k) /\ ret.op = "set" /\ ret.key = k
          /\ \E r \in RowsOf(cache, k) :
               r.value = JsonStringify(v) /\ r.createdAt = clock)
         => (ret'.val = v /\ ret'.val # AbsentResult)]_vars

----------------------------------------------------------------------------
(* Properties of the account registry *)

\* the statuses of the accounts a read returned
ReadStatuses(read) ==
  IF read.op \in {"getAccount", "getAccountByPhone"}
  THEN IF read.val = NoValue THEN {} ELSE {read.val.status}
  ELSE IF read.op \in {"getAllAccounts", "getActiveAccounts"}
  THEN {read.val[i].status : i \in 1 .. Len(read.val)}
  ELSE {}

\* the accounts a read returned
ReadAccounts(read) ==
  IF read.op \in {"getAccount", "getAccountByPhone"}
  THEN IF read.val = NoValue THEN {} ELSE {read.val}
  ELSE IF read.op \in {"getAllAccounts", "getActiveAccounts"}
  THEN {read.val[i] : i \in 1 .. Len(read.val)}
  ELSE {}

\* C19: createAccount returns an Account with status pending_auth, and every read
\* (getAccount, getAccountByPhone, getAllAccounts, getActiveAccounts) derives status
\* from the stored flag only: active iff isActive, inactive otherwise; a getAccount
\* right after createAccount reports inactive; no read reports pending_auth or error.
C19_StatusFromFlag ==
  [][/\ (acctRet'.op = "createAccount" /\ acctNextId' # acctNextId
          /\ ~acctRet'.raised) =>
          /\ CreateAccount(acctRet'.arg)
          /\ acctRet'.val.status = "pending_auth"
          /\ \A r \in RowsById(accounts', acctRet'.val.id) : r.isActive = 0
     /\ (acctRead'.op \in {"getAccount", "getAccountByPhone", "getAllAccounts",
                            "getActiveAccounts"} /\ acctRead' # acctRead) =>
          /\ \A a \in ReadAccounts(acctRead') :
               \E r \in RowsById(accounts, a.id) :
                 a.status = IF r.isActive = 1 THEN "active" ELSE "inactive"
          /\ ReadStatuses(acctRead') \subseteq {"active", "inactive"}
     /\ (acctRead'.op = "getAccount" /\ acctRead' # acctRead
          /\ acctRet.op = "createAccount" /\ ~acctRet.raised
          /\ acctRet.val.id = acctRead'.arg) =>
          /\ GetAccount(acctRead'.arg)
          /\ acctRead'.val.status = "inactive"]_vars

\* getAccount right after createAccount returned pending_auth reports the new
\* account inactive
C19_Witness ==
  /\ acctRet.op = "createAccount"
  /\ ~acctRet.raised
  /\ acctRet.val.status = "pending_auth"
  /\ acctRead.op = "getAccount"
  /\ acctRead.val # NoValue
  /\ acctRead.val.id = acctRet.val.id
  /\ acctRead.val.status = "inactive"

\* C20: no two stored accounts share a phone: createAccount(p) while an account with
\* phone p exists raises and leaves the registry unchanged (same count, the
\* existing account's fields untouched).
C20_UniquePhone ==
  /\ [](\A r1, r2 \in accounts : r1.phone = r2.phone => r1 = r2)
  /\ [][\A p \in Phones :
          (CreateAccount(p) /\ \E r \in accounts : r.phone = p) =>
            /\ acctRet'.raised
            /\ accounts' = accounts
            /\ Cardinality(accounts') = Cardinality(accounts)]_vars

\* a second createAccount with the phone of a stored, activated account has raised
C20_Witness ==
  /\ acctRet.op = "createAccount"
  /\ acctRet.raised
  /\ \E r \in accounts : accounts = {r} /\ r.phone = acctRet.arg /\ r.isActive = 1

\* the step is a write of the AccountManager named op
IsAcctWrite(op) == acctRet'.op = op /\ acctRead' = acctRead /\ clock' = clock

\* C21: after activateSession(id, userId, username) on an existing account with a
\* non-empty userId, getAccount(id) reports status active with session.userId =
\* userId and session.username = username, and lastActiveAt is the time of the call;
\* this stays so until the next activateSession, deactivateSession,
\* updateAccountStatus, touchSession or deleteAccount on that id.
C21_ActivateSession ==
  [][/\ IsAcctWrite("activateSession") =>
          \A a \in ActivateArgs :
            (ActivateSession(acctRet'.arg, a[1], a[2]) /\ a[1] # ""
               /\ RowsById(accounts, acctRet'.arg) # {})
              => \E r \in accounts' :
                   /\ RowsById(accounts', acctRet'.arg) = {r}
                   /\ r.lastActiveAt = clock
                   /\ rowToAccount(r).status = "active"
                   /\ rowToAccount(r).session.userId = a[1]
                   /\ rowToAccount(r).session.username = a[2]
                   /\ rowToAccount(r).session.lastActiveAt = clock
                   /\ rowToAccount(r).updatedAt = clock
     /\ (acctRead'.op = "getAccount" /\ acctRead' # acctRead) =>
          /\ GetAccount(acctRead'.arg)
          /\ \A r \in RowsById(accounts, acctRead'.arg) : acctRead'.val = rowToAccount(r)
     /\ \A r \in accounts :
          \/ r \in accounts'
          \/ /\ acctRet'.arg = r.id
             /\ \/ IsAcctWrite("activateSession")
                \/ IsAcctWrite("deactivateSession")
                \/ IsAcctWrite("updateAccountStatus")
                \/ IsAcctWrite("touchSession")
                \/ IsAcctWrite("deleteAccount")]_vars

\* getAccount reports an account active with the userId and username it was
\* activated with, its lastActiveAt the time of the activation and later than its
\* creation
C21_Witness ==
  /\ acctRet.op = "activateSession"
  /\ acctRead.op = "getAccount"
  /\ acctRead.arg = acctRet.arg
  /\ acctRead.val # NoValue
  /\ acctRead.val.status = "active"
  /\ acctRead.val.session # NoValue
  /\ acctRead.val.session.userId = "u1"
  /\ acctRead.val.session.username = "bob"
  /\ acctRead.val.session.lastActiveAt > acctRead.val.createdAt
  /\ acctRead.val.updatedAt = clock

\* C22: deactivateSession(id) sets only isActive to false: the account's userId,
\* username, createdAt and lastActiveAt are unchanged, so getAccount(id) afterwards
\* reports status inactive and still carries a session with the previous userId and
\* username.
C22_DeactivateKeepsSession ==
  [][IsAcctWrite("deactivateSession") =>
       /\ DeactivateSession(acctRet'.arg)
       /\ \A r \in accounts :
            IF r.id = acctRet'.arg
            THEN \E r2 \in accounts' :
                   /\ RowsById(accounts', r.id) = {r2}
                   /\ r2 = [r EXCEPT !.isActive = 0]
                   /\ rowToAccount(r2).status = "inactive"
                   /\ rowToAccount(r2).createdAt = rowToAccount(r).createdAt
                   /\ rowToAccount(r2).updatedAt = rowToAccount(r).updatedAt
                   /\ (rowToAccount(r2).session = NoValue)
                        <=> (rowToAccount(r).session = NoValue)
                   /\ r.userId # "" =>
                        /\ rowToAccount(r2).session # NoValue
                        /\ rowToAccount(r2).session.userId = r.userId
                        /\ rowToAccount(r2).session.username
                             = rowToSession(r).username
            ELSE r \in accounts'
       /\ Cardinality(accounts') = Cardinality(accounts)]_vars

\* getAccount reports a deactivated account inactive and still with the session of
\* the user it had been activated with
C22_Witness ==
  /\ acctRet.op = "deactivateSession"
  /\ acctRead.op = "getAccount"
  /\ acctRead.arg = acctRet.arg
  /\ acctRead.val # NoValue
  /\ acctRead.val.status = "inactive"
  /\ acctRead.val.session # NoValue
  /\ acctRead.val.session.userId = "u1"
  /\ acctRead.val.session.username = "bob"

\* C23: updateAccountStatus(id, status, error?) on an existing account completes
\* without raising and sets isActive to (status = active) for each of the four
\* status values, changing no other stored field; a later getAccount(id) reports
\* active iff status was active. Stated here for the raw-statement AccountManager.
C23_UpdateStatusAsClaimed ==
  [][(IsAcctWrite("updateAccountStatus") /\ RowsById(accounts, acctRet'.arg) # {}) =>
       /\ ~acctRet'.raised
       /\ \E st \in AccountStatuses :
            \A r \in accounts :
              IF r.id = acctRet'.arg
              THEN /\ [r EXCEPT !.isActive = IF st = "active" THEN 1 ELSE 0] \in accounts'
                   /\ Cardinality(RowsById(accounts', r.id)) = 1
              ELSE r \in accounts']_vars

\* C24: deleteAccount(id) returns true exactly when an account with that id existed,
\* and then that account is removed (getAccount(id) is absent, count() one less);
\* otherwise it returns false and the registry is unchanged. count() is the number
\* of stored accounts, which starts at zero, grows by one with each successful
\* createAccount, shrinks by one with each deleteAccount that returned true and is
\* changed by nothing else.
C24_DeleteAndCount ==
  [][/\ IsAcctWrite("deleteAccount") =>
          /\ acctRet'.val = (RowsById(accounts, acctRet'.arg) # {})
          /\ IF acctRet'.val
             THEN /\ RowsById(accounts', acctRet'.arg) = {}
                  /\ accounts' \subseteq accounts
                  /\ Cardinality(accounts') = Cardinality(accounts) - 1
             ELSE accounts' = accounts
     /\ Cardinality(accounts') - Cardinality(accounts)
          = IF IsAcctWrite("createAccount") /\ ~acctRet'.raised THEN 1
            ELSE IF IsAcctWrite("deleteAccount") /\ acctRet'.val THEN -1
            ELSE 0
     /\ (acctRead'.op = "count" /\ acctRead' # acctRead) =>
          acctRead'.val = Cardinality(accounts)
     /\ (acctRead'.op = "getAccount" /\ acctRead' # acctRead
           /\ RowsById(accounts, acctRead'.arg) = {}) =>
          acctRead'.val = NoValue]_vars

\* count() returns 1 after a deleteAccount that returned true left one of two
\* accounts stored
C24_Witness ==
  /\ acctRet.op = "deleteAccount"
  /\ acctRet.val = TRUE
  /\ acctNextId = 2
  /\ acctRead.op = "count"
  /\ acctRead.val = 1
  /\ RowsById(accounts, acctRet.arg) = {}

\* C25: getActiveSession() returns the session of the account with the greatest
\* lastActiveAt among the accounts whose isActive is true, and returns absent iff no
\* account is active; activating, touching or deactivating one account never changes
\* another account's isActive, so several accounts can be active at once.
C25_ActiveSession ==
  [][/\ (acctRead'.op = "getActiveSession" /\ acctRead' # acctRead) =>
          /\ (acctRead'.val = NoValue) <=> (ActiveRows(accounts) = {})
          /\ ActiveRows(accounts) # {} =>
               \E r \in ActiveRows(accounts) :
                 /\ acctRead'.val = rowToSession(r)
                 /\ \A r2 \in ActiveRows(accounts) : r.lastActiveAt >= r2.lastActiveAt
     /\ (\/ IsAcctWrite("activateSession")
         \/ IsAcctWrite("touchSession")
         \/ IsAcctWrite("deactivateSession")) =>
          \A r \in accounts :
            r.id # acctRet'.arg =>
              \E r2 \in accounts' : r2.id = r.id /\ r2.isActive = r.isActive]_vars

\* two accounts are active at once, and getActiveSession returned the one that was
\* active later
C25_Witness ==
  /\ acctRead.op = "getActiveSession"
  /\ acctRead.val # NoValue
  /\ Cardinality(ActiveRows(accounts)) = 2
  /\ \E r \in ActiveRows(accounts) :
       /\ r.id # acctRead.val.id
       /\ r.lastActiveAt < acctRead.val.lastActiveAt

\* C26: the Session projection of an account is present only when its stored userId
\* is non-empty: for an account whose userId is the empty string, getAccount(id)
\* has no session, and getSession(id) and getActiveSession() return no session for
\* it, whatever its isActive flag.
C26_SessionOnlyWhenLinkedAsClaimed ==
  [][/\ (acctRead'.op = "getAccount" /\ acctRead' # acctRead
           /\ acctRead'.val # NoValue) =>
          \A r \in RowsById(accounts, acctRead'.arg) :
            r.userId = "" => acctRead'.val.session = NoValue
     /\ (acctRead'.op = "getSession" /\ acctRead' # acctRead) =>
          \A r \in RowsById(accounts, acctRead'.arg) :
            r.userId = "" => acctRead'.val = NoValue
     /\ (acctRead'.op = "getActiveSession" /\ acctRead' # acctRead
           /\ acctRead'.val # NoValue) =>
          \A r \in RowsById(accounts, acctRead'.val.id) : r.userId # ""]_vars

\* C27: no store operation is issued on the storage handle after it has been
\* closed: for any sequence and interleaving of start(), stop(), transport-close
\* events and in-flight tool-call requests, every log write happens while the
\* handle obtained from getDatabase is open.
C27_NoStoreOpAfterCloseAsClaimed ==
  \A i \in 1 .. Len(srvOps) : srvOps[i].open

\* C28: shutdown closes the storage handle: whenever stop() returns on a server
\* that had been started, the handle opened at startup is closed, including when
\* the transport's close handler ran before stop() was called.
C28_StopClosesHandleAsClaimed ==
  (/\ wasStarted
   /\ srvRet.raised = NoError
   /\ \/ srvRet.op = "stop" /\ srvRet.val = "done"
      \/ srvRet.op = "stopResume")
    => ~dbOpen

\* the step is the server call or handler named op
IsSrvCall(op) == srvRet'.op = op /\ UNCHANGED mockVars

\* C29 as stated: the server is not running initially; start() on a running
\* server raises 'Server is already running' without changing state; stop() on a
\* server that is not running does nothing; and getRunningStatus() is true
\* exactly from the completion of a successful start() until stop() completes or
\* the transport's close handler runs.
C29_RunningStatusAsClaimed ==
  /\ ~isRunning
  /\ [][/\ (IsSrvCall("start") /\ isRunning) =>
             /\ srvRet'.raised = AlreadyRunning
             /\ srvOps' = <<>>
             /\ UNCHANGED <<isRunning, dbOpen, pending, wasStarted, connected,
                            starting, stopping>>
        /\ (IsSrvCall("stop") /\ ~isRunning) =>
             /\ srvRet'.raised = NoError
             /\ srvOps' = <<>>
             /\ UNCHANGED <<isRunning, dbOpen, pending, wasStarted, connected,
                            starting, stopping>>
        /\ IsSrvCall("getRunningStatus") => srvRet'.val = isRunning
        /\ (~isRunning /\ isRunning')
             => (IsSrvCall("startResume") /\ srvRet'.raised = NoError)
        /\ (IsSrvCall("startResume") /\ srvRet'.raised = NoError) => isRunning'
        /\ (isRunning /\ ~isRunning')
             => /\ IsSrvCall("stop") \/ IsSrvCall("stopResume") \/ IsSrvCall("onclose")
                /\ srvRet'.raised = NoError
        /\ (IsSrvCall("stopResume") \/ (IsSrvCall("onclose") /\ srvRet'.raised = NoError))
             => ~isRunning']_vars

\* the step is the provider call named op
IsMockCall(op) == mockRet.op = "none" /\ mockRet'.op = op

\* the step is one of the three data operations of the provider
IsDataCall == IsMockCall("listChats") \/ IsMockCall("getMessages") \/ IsMockCall("sendMessage")

\* the login flag starts false and follows successful login, logout and reset
AuthFollowsLogin ==
  /\ IsMockCall("isAuthenticated") => mockRet'.val = isAuthenticatedFlag
  /\ (IsMockCall("login") /\ mockRet'.raised = NoError) => isAuthenticatedFlag'
  /\ ((IsMockCall("logout") /\ mockRet'.raised = NoError) \/ IsMockCall("reset"))
       => ~isAuthenticatedFlag'
  /\ isAuthenticatedFlag' # isAuthenticatedFlag =>
       \/ IsMockCall("login") /\ mockRet'.raised = NoError
       \/ IsMockCall("logout") /\ mockRet'.raised = NoError
       \/ IsMockCall("reset")

\* C30 as stated: the mock provider is authenticated exactly between a successful
\* login and the next successful logout or reset; isAuthenticated() is false
\* initially, and whenever it is false listChats, getMessages and sendMessage raise
\* 'Not authenticated' and change nothing.
C30_AuthGateAsClaimed ==
  /\ ~isAuthenticatedFlag
  /\ [][/\ AuthFollowsLogin
        /\ (IsDataCall /\ ~isAuthenticatedFlag) =>
             /\ mockRet'.raised = NotAuthenticated
             /\ UNCHANGED <<isAuthenticatedFlag, currentUser, simulateError,
                            chats, messages>>]_vars

\* C30, amended: as above, except that while unauthenticated the three operations
\* raise 'Simulated Telegram API error' when error simulation is enabled and 'Not
\* authenticated' otherwise; either way they return no data and change nothing.
C30_AuthGate ==
  /\ ~isAuthenticatedFlag
  /\ [][/\ AuthFollowsLogin
        /\ (IsDataCall /\ ~isAuthenticatedFlag) =>
             /\ mockRet'.raised
                  = IF simulateError THEN SimulatedError ELSE NotAuthenticated
             /\ mockRet'.val = NoValue
             /\ UNCHANGED <<isAuthenticatedFlag, currentUser, simulateError,
                            chats, messages>>]_vars

\* after a logout, with a message sent while logged in still stored, sendMessage
\* has raised 'Not authenticated'
C30_Witness ==
  /\ ~isAuthenticatedFlag
  /\ mockRet.op = "sendMessage"
  /\ mockRet.raised = NotAuthenticated
  /\ mockRet.args[1] \in ChatIds
  /\ StoredMessages > Len(MockMessages(0)["chat-1"]) + Len(MockMessages(0)["chat-2"])
                        + Len(MockMessages(0)["chat-3"])

\* the provider operations that start with simulateDelay() and throwIfError()
GuardedCalls == {"login", "logout", "getCurrentUser", "listChats", "getMessages",
                 "sendMessage"}

\* C31: while error simulation is enabled, login, logout, getCurrentUser, listChats,
\* getMessages and sendMessage each raise 'Simulated Telegram API error' and leave
\* the authentication flag, the current user, the chats and the messages unchanged;
\* once setSimulateError(false) has switched it off none of them raises that error:
\* login, logout and getCurrentUser succeed, and so do the three data operations of
\* an authenticated provider (sendMessage on an existing chat).
C31_ErrorSimulation ==
  [][/\ IsMockCall("setSimulateError") => simulateError' = mockRet'.args[1]
     /\ \A op \in GuardedCalls :
          IsMockCall(op) =>
            /\ simulateError =>
                 /\ mockRet'.raised = SimulatedError
                 /\ mockRet'.val = NoValue
                 /\ UNCHANGED <<isAuthenticatedFlag, currentUser, simulateError,
                                chats, messages>>
            /\ ~simulateError =>
                 /\ mockRet'.raised # SimulatedError
                 /\ op \in {"login", "logout", "getCurrentUser"}
                      => mockRet'.raised = NoError
                 /\ (/\ op \in {"listChats", "getMessages", "sendMessage"}
                     /\ isAuthenticatedFlag
                     /\ op = "sendMessage" => mockRet'.args[1] \in ChatIds)
                      => mockRet'.raised = NoError]_vars

\* a logged-in provider that already stores a sent message has refused another
\* sendMessage to an existing chat while error simulation is on
C31_Witness ==
  /\ simulateError
  /\ isAuthenticatedFlag
  /\ mockRet.op = "sendMessage"
  /\ mockRet.raised = SimulatedError
  /\ mockRet.args[1] \in ChatIds
  /\ Len(messages["chat-1"]) > Len(MockMessages(0)["chat-1"])

\* what sendMessage(chatId, text) did in this step, as C32 words it: the new message
\* is at the front of the chat's list, or the chat is unknown and nothing changed
SentOrChatNotFound ==
  LET chatId == mockRet'.args[1]
      text == mockRet'.args[2]
  IN IF chatId \in ChatIds
     THEN /\ mockRet'.raised = NoError
          /\ Len(messages'[chatId]) = Len(messages[chatId]) + 1
          /\ Tail(messages'[chatId]) = messages[chatId]
          /\ \A n \in 1 .. Len(messages'[chatId]) + 1 :
               SliceTo(messages'[chatId], n)[1].text = text
          /\ chats'[chatId].lastMessage = messages'[chatId][1]
          /\ chats'[chatId].lastMessage.text = text
     ELSE /\ mockRet'.raised = ChatNotFound(chatId)
          /\ UNCHANGED <<chats, messages>>

\* C32 as stated: sendMessage(chatId, text) on an authenticated provider either puts
\* the new message at the front of that chat's message list (the list grows by one,
\* getMessages(chatId, n)[0].text = text for every n >= 1, and the chat's lastMessage
\* is the new message) or, when chatId names no chat, raises 'Chat not found' and
\* changes no chat or message.
C32_SendMessageAsClaimed ==
  [][(IsMockCall("sendMessage") /\ isAuthenticatedFlag) => SentOrChatNotFound]_vars

\* C32, amended: the same two outcomes for an authenticated provider whose error
\* simulation is off; with error simulation on, sendMessage raises 'Simulated
\* Telegram API error' and changes no chat or message.
C32_SendMessage ==
  [][(IsMockCall("sendMessage") /\ isAuthenticatedFlag) =>
       IF simulateError
       THEN mockRet'.raised = SimulatedError /\ UNCHANGED <<chats, messages>>
       ELSE SentOrChatNotFound]_vars

\* the second message sent to chat-1 is in front of the first one and is the
\* chat's lastMessage
C32_Witness ==
  /\ mockRet.op = "sendMessage"
  /\ mockRet.raised = NoError
  /\ mockRet.args = <<"chat-1", "Bye">>
  /\ Len(messages["chat-1"]) = Len(MockMessages(0)["chat-1"]) + 2
  /\ messages["chat-1"][1].text = "Bye"
  /\ messages["chat-1"][2].text = "Hello"
  /\ chats["chat-1"].lastMessage = messages["chat-1"][1]

\* C33 as stated: the raw-statement AccountManager and the ORM-mediated
\* AccountManager are behaviourally equivalent: run on the same rows and clock, each
\* operation returns the same result or raises in both, and the stored rows stay
\* equal. Here: every step of the raw registry is the step the ORM registry takes
\* for the same call from the same rows.
C33_RawEqualsOrmAsClaimed ==
  [][/\ \A p \in Phones : RawCreateAccount(p) => CreateAccount(p)
     /\ \A id \in AcctIds, st \in AccountStatuses :
          RawUpdateAccountStatus(id, st) => UpdateAccountStatus(id, st)
     /\ \A id \in AcctIds, a \in ActivateArgs :
          RawActivateSession(id, a[1], a[2]) => ActivateSession(id, a[1], a[2])
     /\ \A id \in AcctIds : RawDeactivateSession(id) => DeactivateSession(id)
     /\ \A id \in AcctIds : RawDeleteAccount(id) => DeleteAccount(id)
     /\ \A id \in AcctIds : RawTouchSession(id) => TouchSession(id)
     /\ \A id \in AcctIds : RawGetAccount(id) => GetAccount(id)
     /\ \A ph \in Phones : RawGetAccountByPhone(ph) => GetAccountByPhone(ph)
     /\ RawGetAllAccounts => GetAllAccounts
     /\ RawGetActiveAccounts => GetActiveAccounts
     /\ \A id \in AcctIds : RawGetSession(id) => GetSession(id)
     /\ RawGetActiveSession => GetActiveSession
     /\ RawCount => AcctCount]_vars

\* C34 as stated: the raw-statement Logger and the ORM-mediated Logger are
\* behaviourally equivalent: for the same calls with the same arguments and clock
\* both store equal rows and return equal results, for every context value
\* including duration 0 and empty strings. Here: every log call of the raw Logger
\* stores the row the ORM Logger stores for that call.
C34_RawLogEqualsOrmAsClaimed ==
  [][\A l \in Levels, c \in Contexts : Log(l, c) => OrmLog(l, c)]_vars

\* C35: the three stores operate on disjoint state: every Cache Store operation
\* leaves all log entries and account rows unchanged, every Log Store operation
\* (trim and clear included) leaves all cache entries and account rows unchanged,
\* and every Account Registry operation leaves all cache entries and log entries
\* unchanged; deleteAccount(id) keeps the log entries whose sessionId is id. A call
\* is told by what it changes of its own store: its table, its counters or the
\* value it returned.
C35_DisjointStores ==
  [][/\ (cache' # cache \/ ret' # ret \/ hitCount' # hitCount \/ missCount' # missCount)
          => UNCHANGED <<logs, accounts>>
     /\ (logs' # logs \/ logRet' # logRet \/ queryRet' # queryRet)
          => UNCHANGED <<cache, accounts>>
     /\ (accounts' # accounts \/ acctRet' # acctRet \/ acctRead' # acctRead)
          => UNCHANGED <<cache, logs>>
     /\ (acctRet'.op = "deleteAccount" /\ (acctRet' # acctRet \/ accounts' # accounts))
          => {r \in logs : r.sessionId = ToString(acctRet'.arg)} \subseteq logs']_vars

\* an account has been deleted while the cache holds an entry and the log holds an
\* entry of that account's session
C35_Witness ==
  /\ acctRet.op = "deleteAccount"
  /\ acctRet.val = TRUE
  /\ accounts = {}
  /\ cache # {}
  /\ \E r \in logs : r.sessionId = ToString(acctRet.arg)

\* the store operations named what among those a handler step issued
OpsNamed(ops, what) == Cardinality({i \in 1 .. Len(ops) : ops[i].what = what})

\* the step ends a run of the tool-call handler: at once, or after its await
HandlerEnds ==
  \/ IsSrvCall("callTool") /\ (srvRet'.raised = NoError => srvRet'.val # "awaiting")
  \/ srvRet'.op = "toolResume" /\ pending' # pending

\* C36 as stated: every tool-invocation request gets a response and the handler
\* never raises: the response is a non-error content payload iff the tool is one of
\* listChats, getMessages, sendMessage, markAsRead, its required arguments are
\* present and the Telegram service call succeeds, and an error-flagged response
\* otherwise; each failing known-tool call records exactly one error log entry and
\* each successful one exactly one tool-execution info entry.
C36_ToolCallAsClaimed ==
  [][HandlerEnds =>
       LET req == srvRet'.arg
           ok == /\ req.name \in KnownTools
                 /\ ~MissingArgs(req)
                 /\ AwaitsService(req) => mockRet'.raised = NoError
       IN /\ srvRet'.raised = NoError
          /\ srvRet'.val = IF ok THEN "content" ELSE "error"
          /\ OpsNamed(srvOps', "logTool") = IF ok THEN 1 ELSE 0
          /\ OpsNamed(srvOps', "logToolError")
               = IF req.name \in KnownTools /\ ~ok THEN 1 ELSE 0]_vars

\* C37 as stated: query and count called with a level string that is not one of
\* debug, info, warn, error raise no error and match no entries, for every such
\* string including the empty string.
C37_InvalidLevelAsClaimed ==
  (/\ queryRet.op \in {"query", "count"}
   /\ queryRet.opts.level # UndefText
   /\ queryRet.opts.level \notin Levels)
    => /\ queryRet.entries = <<>>
       /\ queryRet.count = 0

\* the step is the continuation of a get of the ORM-mediated CacheManager
IsOrmGetRun ==
  /\ microtasks # <<>>
  /\ Head(microtasks).op = "get"
  /\ Len(microtasks') = Len(microtasks)
  /\ microtasks' # microtasks

\* C38 as stated: in the ORM-mediated (async) CacheManager, lazy expiry never
\* removes an entry that is unexpired at the moment of removal: when a get(k) has
\* read an expired row and a set(k, v2) completes before get's delete runs, v2 is
\* still stored after both calls complete.
C38_LazyExpiryAsClaimed ==
  [][IsOrmGetRun => \A r \in cache \ cache' : IsExpired(r, clock)]_vars

\* the writes of the AccountManager that update the row of one id
RowUpdates == {"activateSession", "deactivateSession", "touchSession",
               "updateAccountStatus"}

\* C39: activateSession, deactivateSession, touchSession and updateAccountStatus
\* called with an id that has no account raise no error, create no row and leave
\* every existing account and count() unchanged.
C39_UnknownIdNoEffect ==
  [][\A op \in RowUpdates :
       (IsAcctWrite(op) /\ RowsById(accounts, acctRet'.arg) = {}) =>
         /\ acctRet'.raised = FALSE
         /\ accounts' = accounts
         /\ Cardinality(accounts') = Cardinality(accounts)
         /\ acctNextId' = acctNextId]_vars

\* activateSession has been called with the id of an account deleted earlier,
\* while another account is stored
C39_Witness ==
  /\ acctRet.op = "activateSession"
  /\ acctRet.arg \in 1 .. acctNextId
  /\ RowsById(accounts, acctRet.arg) = {}
  /\ accounts # {}

\* every stored account was last active no earlier than it was created
CreatedBeforeActive(table) == \A r \in table : r.createdAt <= r.lastActiveAt

\* C40: for every stored account, id, phone and createdAt never change after
\* creation and createdAt <= lastActiveAt holds in every reachable state; with a
\* non-decreasing clock lastActiveAt never decreases and is changed only by
\* activateSession and touchSession, which set it to the current time.
C40_AccountTimes ==
  /\ CreatedBeforeActive(accounts)
  /\ [][/\ CreatedBeforeActive(accounts')
        /\ clock' >= clock
        /\ \A r \in accounts, r2 \in accounts' :
             r2.id = r.id =>
               /\ r2.phone = r.phone
               /\ r2.createdAt = r.createdAt
               /\ r2.lastActiveAt >= r.lastActiveAt
               /\ r2.lastActiveAt # r.lastActiveAt =>
                    /\ IsAcctWrite("activateSession") \/ IsAcctWrite("touchSession")
                    /\ acctRet'.arg = r.id
        /\ (IsAcctWrite("activateSession") \/ IsAcctWrite("touchSession")) =>
             \A r2 \in RowsById(accounts', acctRet'.arg) : r2.lastActiveAt = clock
        /\ \A r \in accounts', r2 \in accounts' : r2.id = r.id => r2 = r]_vars

\* touchSession has moved an account's lastActiveAt past its createdAt, after the
\* account had been activated
C40_Witness ==
  /\ acctRet.op = "touchSession"
  /\ \E r \in accounts :
       /\ r.id = acctRet.arg
       /\ r.userId = "u1"
       /\ r.lastActiveAt = clock
       /\ r.createdAt < r.lastActiveAt

====
